---- MODULE Spec2Model ----
(***************************************************************************)
(* Grabbit: the custom-scrape route, the hybrid contact extraction, the    *)
(* retrying fetcher and the business search, with the validator, the       *)
(* duplicate detector and the cache they call.  Strings are TLA+ strings   *)
(* (sequences of characters); a character is a string of length one.       *)
(***************************************************************************)
EXTENDS Integers, Sequences, FiniteSets, TLC

-----------------------------------------------------------------------------
(* JavaScript string primitives used by the code                           *)

\* Printable ASCII without the double quote (34), the backslash (92) and the
\* backtick (96), in four runs of consecutive code units.
AsciiLow == " !"
AsciiMid == "#$%&'()*+,-./0123456789:;<=>?@ABCDEFGHIJKLMNOPQRSTUVWXYZ["
AsciiHigh == "]^_"
AsciiTop == "abcdefghijklmnopqrstuvwxyz{|}~"

Char(s, i) == SubSeq(s, i, i)

CharsOf(s) == {Char(s, i) : i \in 1..Len(s)}

Alphabet ==
  CharsOf(AsciiLow) \cup CharsOf(AsciiMid) \cup CharsOf(AsciiHigh) \cup CharsOf(AsciiTop)

PosIn(run, c) == CHOOSE i \in 1..Len(run) : Char(run, i) = c

\* UTF-16 code unit of a character
CodeOf ==
  [c \in Alphabet |->
     IF c \in CharsOf(AsciiLow) THEN 31 + PosIn(AsciiLow, c)
     ELSE IF c \in CharsOf(AsciiMid) THEN 34 + PosIn(AsciiMid, c)
     ELSE IF c \in CharsOf(AsciiHigh) THEN 92 + PosIn(AsciiHigh, c)
     ELSE 96 + PosIn(AsciiTop, c)]

UpperLetters == {c \in Alphabet : CodeOf[c] \in 65..90}
LowerLetters == {c \in Alphabet : CodeOf[c] \in 97..122}
Digits == {c \in Alphabet : CodeOf[c] \in 48..57}
\* \w of the regular expressions
WordChars == UpperLetters \cup LowerLetters \cup Digits \cup {"_"}

\* c.toLowerCase(): an upper-case letter moves 32 code units up
LowerOf ==
  [c \in Alphabet |->
     IF c \in UpperLetters THEN CHOOSE d \in Alphabet : CodeOf[d] = CodeOf[c] + 32 ELSE c]

IsDigit(c) == c \in Digits
IsWordChar(c) == c \in WordChars
\* \s of the regular expressions (the alphabet has one space character)
IsSpace(c) == c = " "

SetMin(S) == CHOOSE x \in S : \A y \in S : x <= y
SetMax(S) == CHOOSE x \in S : \A y \in S : y <= x

RECURSIVE Concat(_)
\* the concatenation of a sequence of strings
Concat(parts) ==
  IF parts = <<>> THEN ""
  ELSE IF Len(parts) = 1 THEN parts[1]
  ELSE LET half == Len(parts) \div 2
       IN Concat(SubSeq(parts, 1, half)) \o Concat(SubSeq(parts, half + 1, Len(parts)))

toLowerCase(s) == Concat([i \in 1..Len(s) |-> LowerOf[Char(s, i)]])

trim(s) ==
  LET keep == {i \in 1..Len(s) : ~IsSpace(Char(s, i))}
  IN IF keep = {} THEN "" ELSE SubSeq(s, SetMin(keep), SetMax(keep))

startsWith(s, p) == Len(p) <= Len(s) /\ SubSeq(s, 1, Len(p)) = p
endsWith(s, p) == Len(p) <= Len(s) /\ SubSeq(s, Len(s) - Len(p) + 1, Len(s)) = p
includes(s, p) == \E i \in 0..(Len(s) - Len(p)) : SubSeq(s, i + 1, i + Len(p)) = p
substring(s, from, to) == SubSeq(s, from + 1, IF to < Len(s) THEN to ELSE Len(s))
dropPrefix(s, p) == IF startsWith(s, p) THEN SubSeq(s, Len(p) + 1, Len(s)) ELSE s

\* s.split(sep)[0] and s.split(sep)[1] for a one-character separator
splitHead(s, sep) ==
  LET at == {i \in 1..Len(s) : Char(s, i) = sep}
  IN IF at = {} THEN s ELSE SubSeq(s, 1, SetMin(at) - 1)
splitSecond(s, sep) ==
  LET at == {i \in 1..Len(s) : Char(s, i) = sep}
      rest == SubSeq(s, SetMin(at) + 1, Len(s))
  IN IF at = {} THEN "" ELSE splitHead(rest, sep)

\* s.replace(/\D/g, "")
digitsOnly(s) ==
  LET d(i) == IF IsDigit(Char(s, i)) THEN Char(s, i) ELSE ""
  IN Concat([i \in 1..Len(s) |-> d(i)])

\* s.replace(/\s+/g, rep)
replaceWhitespaceRuns(s, rep) ==
  LET r(i) == IF ~IsSpace(Char(s, i)) THEN Char(s, i)
              ELSE IF i > 1 /\ IsSpace(Char(s, i - 1)) THEN "" ELSE rep
  IN Concat([i \in 1..Len(s) |-> r(i)])

\* s.replace(/[^\w\s]/g, "")
stripPunctuation(s) ==
  LET r(i) == IF IsWordChar(Char(s, i)) \/ IsSpace(Char(s, i)) THEN Char(s, i) ELSE ""
  IN Concat([i \in 1..Len(s) |-> r(i)])

\* a < b in the code-unit order of Array.prototype.sort()
RECURSIVE StrLess(_, _)
StrLess(a, b) ==
  IF b = "" THEN FALSE
  ELSE IF a = "" THEN TRUE
  ELSE IF Char(a, 1) = Char(b, 1) THEN StrLess(SubSeq(a, 2, Len(a)), SubSeq(b, 2, Len(b)))
  ELSE CodeOf[Char(a, 1)] < CodeOf[Char(b, 1)]

\* arr.sort(): stable, ascending by code units; an element goes to the place
\* after the elements that are smaller, or equal and earlier
sort(arr) ==
  LET n == Len(arr)
      place == SubSeq([i \in 1..n |->
                         1 + Cardinality({j \in 1..n :
                                            \/ StrLess(arr[j], arr[i])
                                            \/ arr[j] = arr[i] /\ j < i})], 1, n)
  IN SubSeq([k \in 1..n |-> arr[CHOOSE i \in 1..n : place[i] = k]], 1, n)

RECURSIVE join(_, _)
join(arr, sep) ==
  IF arr = <<>> THEN ""
  ELSE IF Len(arr) = 1 THEN arr[1]
  ELSE LET half == Len(arr) \div 2
       IN join(SubSeq(arr, 1, half), sep) \o sep \o join(SubSeq(arr, half + 1, Len(arr)), sep)

\* null / undefined
NULL == "<null>"
orElse(v, d) == IF v = NULL \/ v = "" THEN d ELSE v

-----------------------------------------------------------------------------
(* The URL class of the platform, on "https://" followed by rest, for     *)
(* inputs without "?", "#" or ":" after the scheme: the authority is the   *)
(* text before the first "/", the host what follows its last "@" and the   *)
(* credentials what precedes it; parsing fails on an empty host or a space *)
(* in the host; href always carries a path.                                *)

URLAuthority(rest) == splitHead(rest, "/")
URLHost(rest) ==
  LET authority == URLAuthority(rest)
      ats == {i \in 1..Len(authority) : Char(authority, i) = "@"}
  IN IF ats = {} THEN authority ELSE SubSeq(authority, SetMax(ats) + 1, Len(authority))
URLCredentials(rest) ==
  LET authority == URLAuthority(rest)
  IN IF URLHost(rest) = authority THEN ""
     ELSE SubSeq(authority, 1, Len(authority) - Len(URLHost(rest)) - 1)

URLParses(rest) == URLHost(rest) # "" /\ ~includes(URLHost(rest), " ")
URLHostname(rest) == toLowerCase(URLHost(rest))
URLHref(rest) ==
  LET path == SubSeq(rest, Len(URLAuthority(rest)) + 1, Len(rest))
      credentials == URLCredentials(rest)
  IN "https://" \o (IF credentials = "" THEN "" ELSE credentials \o "@")
       \o URLHostname(rest) \o (IF path = "" THEN "/" ELSE path)

\* s.replace(/^(https?:\/\/)?/, "")
stripSchemeOnly(s) ==
  IF startsWith(s, "https://") THEN dropPrefix(s, "https://") ELSE dropPrefix(s, "http://")

\* s.replace(/^(https?:\/\/)?(www\.)?/, "")
stripSchemeAndWww(s) ==
  LET noScheme == IF startsWith(s, "https://") THEN dropPrefix(s, "https://")
                  ELSE dropPrefix(s, "http://")
  IN dropPrefix(noScheme, "www.")

\* /^\d+\.\d+\.\d+\.\d+$/.test(s)
IsIPv4Literal(s) ==
  /\ s # ""
  /\ \A i \in 1..Len(s) : IsDigit(Char(s, i)) \/ Char(s, i) = "."
  /\ Cardinality({i \in 1..Len(s) : Char(s, i) = "."}) = 3
  /\ Char(s, 1) # "." /\ Char(s, Len(s)) # "."
  /\ ~includes(s, "..")

-----------------------------------------------------------------------------
(* BusinessDataValidator                                                   *)

\* /(\d)\1{6,}/.test(digits)
HasRepeatedDigitRun(digits) ==
  \E i \in 1..(Len(digits) - 6) : \A j \in i..(i + 6) : Char(digits, j) = Char(digits, i)

fakeNumbers == {"1234567890", "0000000000", "1111111111"}

\* an international number gets the country code 1 in front
prefixCountryCode(phone) ==
  IF phone = NULL \/ phone = "" THEN NULL
  ELSE LET digits == digitsOnly(phone) IN
    IF Len(digits) < 7 \/ Len(digits) > 15 THEN NULL
    ELSE IF HasRepeatedDigitRun(digits) THEN NULL
    ELSE IF digits \in fakeNumbers THEN NULL
    ELSE IF Len(digits) = 10 THEN
      IF Char(digits, 1) \in {"0", "1"} THEN NULL
      ELSE "(" \o SubSeq(digits, 1, 3) \o ") " \o SubSeq(digits, 4, 6) \o "-" \o SubSeq(digits, 7, 10)
    ELSE IF Len(digits) = 11 /\ Char(digits, 1) = "1" THEN
      IF Char(digits, 2) \in {"0", "1"} THEN NULL
      ELSE "+1 (" \o SubSeq(digits, 2, 4) \o ") " \o SubSeq(digits, 5, 7) \o "-" \o SubSeq(digits, 8, 11)
    ELSE "+1" \o digits

validatePhone(phone) ==
  IF phone = NULL \/ phone = "" THEN NULL
  ELSE LET digits == digitsOnly(phone) IN
    IF Len(digits) < 7 \/ Len(digits) > 15 THEN NULL
    ELSE IF HasRepeatedDigitRun(digits) THEN NULL
    ELSE IF digits \in fakeNumbers THEN NULL
    ELSE IF Len(digits) = 10 THEN
      IF Char(digits, 1) \in {"0", "1"} THEN NULL
      ELSE "(" \o SubSeq(digits, 1, 3) \o ") " \o SubSeq(digits, 4, 6) \o "-" \o SubSeq(digits, 7, 10)
    ELSE IF Len(digits) = 11 /\ Char(digits, 1) = "1" THEN
      IF Char(digits, 2) \in {"0", "1"} THEN NULL
      ELSE "+1 (" \o SubSeq(digits, 2, 4) \o ") " \o SubSeq(digits, 5, 7) \o "-" \o SubSeq(digits, 8, 11)
    ELSE "+" \o digits

disposableDomains ==
  {"tempmail.com", "10minutemail.com", "guerrillamail.com", "mailinator.com",
   "throwaway.email", "temp-mail.org", "getnada.com", "maildrop.cc", "yopmail.com",
   "sharklasers.com", "guerrillamailblock.com"}

isDisposableEmail(email) == toLowerCase(splitSecond(email, "@")) \in disposableDomains

\* /^[^\s@]+@[^\s@]+\.[^\s@]+$/.test(email)
MatchesEmailRegex(email) ==
  LET ats == {i \in 1..Len(email) : Char(email, i) = "@"} IN
  /\ Cardinality(ats) = 1
  /\ ~includes(email, " ")
  /\ LET at == SetMin(ats) IN
       /\ at > 1
       /\ \E d \in (at + 2)..(Len(email) - 1) : Char(email, d) = "."

fakeLocalParts == {"test", "example", "sample", "demo", "noreply", "no-reply"}

validateEmail(email) ==
  IF email = NULL \/ email = "" THEN FALSE
  ELSE IF ~MatchesEmailRegex(email) THEN FALSE
  ELSE IF isDisposableEmail(email) THEN FALSE
  ELSE IF toLowerCase(splitHead(email, "@")) \in fakeLocalParts THEN FALSE
  ELSE IF Len(email) > 254 THEN FALSE
  ELSE TRUE

validateWebsite(url) ==
  IF url = NULL \/ url = "" THEN NULL
  ELSE LET cleanUrl == stripSchemeAndWww(toLowerCase(trim(url)))
           domainOnly == splitHead(cleanUrl, "/")
       IN IF ~includes(domainOnly, ".") \/ endsWith(domainOnly, ".") THEN NULL
          ELSE IF \/ includes(domainOnly, "localhost")
                  \/ includes(domainOnly, "127.0.0.1")
                  \/ IsIPv4Literal(domainOnly) THEN NULL
          ELSE IF ~URLParses(cleanUrl) THEN NULL
          ELSE URLHref(cleanUrl)

validateBusinessName(name) ==
  IF name = NULL \/ name = "" THEN NULL
  ELSE LET cleaned == trim(name) IN
    IF Len(cleaned) < 2 THEN NULL
    ELSE IF Len(cleaned) > 200 THEN substring(cleaned, 0, 200)
    ELSE replaceWhitespaceRuns(cleaned, " ")

validateAddress(address) ==
  IF address = NULL \/ address = "" THEN NULL
  ELSE LET cleaned == trim(address) IN
    IF Len(cleaned) < 5 THEN NULL
    ELSE IF Len(cleaned) > 500 THEN substring(cleaned, 0, 500)
    ELSE replaceWhitespaceRuns(cleaned, " ")

\* every rejected field keeps its raw value
rawWhenRejected(business) ==
  [name |-> orElse(validateBusinessName(business.name), business.name),
   phone |-> orElse(validatePhone(business.phone), business.phone),
   email |-> business.email,
   website |-> orElse(validateWebsite(business.website), business.website),
   address |-> orElse(validateAddress(business.address), business.address),
   category |-> trim(business.category)]

validateBusinessResult(business) ==
  [name |-> orElse(validateBusinessName(business.name), business.name),
   phone |-> orElse(validatePhone(business.phone), ""),
   email |-> IF business.email # "" /\ validateEmail(business.email)
             THEN business.email ELSE "",
   website |-> orElse(validateWebsite(business.website), ""),
   address |-> orElse(validateAddress(business.address), ""),
   category |-> trim(business.category)]

-----------------------------------------------------------------------------
(* DuplicateDetector                                                       *)

businessSuffixes == {"inc", "llc", "ltd", "corp", "corporation", "company", "co", "llp", "lp"}
streetTypes ==
  {"street", "st", "avenue", "ave", "road", "rd", "boulevard", "blvd", "drive", "dr",
   "lane", "ln", "way", "place", "pl"}

\* s.replace(/\b(w1|w2|...)\b/g, ""): every maximal run of word characters
\* that is one of the words is removed
RECURSIVE removeWordsFrom(_, _, _, _)
\* run is the run of word characters that ends before position i
removeWordsFrom(s, i, run, words) ==
  LET kept == IF run \in words THEN "" ELSE run
  IN IF i > Len(s) THEN kept
     ELSE IF IsWordChar(Char(s, i)) THEN removeWordsFrom(s, i + 1, run \o Char(s, i), words)
     ELSE kept \o Char(s, i) \o removeWordsFrom(s, i + 1, "", words)

removeWords(s, words) == removeWordsFrom(s, 1, "", words)

normalizeBusinessName(name) ==
  IF name = "" THEN ""
  ELSE trim(replaceWhitespaceRuns(
         removeWords(stripPunctuation(toLowerCase(name)), businessSuffixes), " "))

normalizeAddress(address) ==
  IF address = "" THEN ""
  ELSE trim(replaceWhitespaceRuns(
         stripPunctuation(removeWords(toLowerCase(address), streetTypes)), " "))

extractDomain(url) ==
  IF url = "" THEN NULL
  ELSE LET full == IF startsWith(url, "http") THEN url ELSE "https://" \o url
           rest == IF startsWith(full, "https://") THEN dropPrefix(full, "https://")
                   ELSE dropPrefix(full, "http://")
       IN IF (startsWith(full, "https://") \/ startsWith(full, "http://")) /\ URLParses(rest)
          THEN URLHostname(rest) ELSE NULL

\* a signature that also holds the address
signatureWithAddress(business) ==
  toLowerCase(normalizeBusinessName(business.name) \o "|" \o digitsOnly(business.phone)
              \o "|" \o orElse(extractDomain(business.website), "")
              \o "|" \o business.address)

\* lines 74-80
createBusinessSignature(business) ==
  toLowerCase(normalizeBusinessName(business.name) \o "|" \o digitsOnly(business.phone)
              \o "|" \o orElse(extractDomain(business.website), ""))

RECURSIVE levenshteinRow(_, _, _, _)
\* lines 141-153: the row matrix[i] built from matrix[i - 1], left to right;
\* a row is the sequence of matrix[i][0], ..., matrix[i][str1.length]
levenshteinRow(above, row, c, str1) ==
  IF Len(row) = Len(str1) + 1 THEN row
  ELSE LET j == Len(row)
           cell == IF c = Char(str1, j) THEN above[j]
                   ELSE 1 + SetMin({above[j], row[j], above[j + 1]})
       IN levenshteinRow(above, Append(row, cell), c, str1)

RECURSIVE levenshteinRows(_, _, _, _)
\* lines 140-154: the rows matrix[i], ..., matrix[str2.length]
levenshteinRows(above, i, str1, str2) ==
  IF i > Len(str2) THEN above
  ELSE levenshteinRows(levenshteinRow(above, <<i>>, Char(str2, i), str1), i + 1, str1, str2)

levenshteinDistance(str1, str2) ==
  levenshteinRows([j \in 1..Len(str1) + 1 |-> j - 1], 1, str1, str2)[Len(str1) + 1]

\* A score is a fraction <<numerator, denominator>>.
stringSimilarity(str1, str2) ==
  IF str1 = "" \/ str2 = "" THEN <<0, 1>>
  ELSE IF str1 = str2 THEN <<1, 1>>
  ELSE LET longer == IF Len(str1) > Len(str2) THEN str1 ELSE str2
           shorter == IF Len(str1) > Len(str2) THEN str2 ELSE str1
       IN <<Len(longer) - levenshteinDistance(longer, shorter), Len(longer)>>

phoneSimilarity(phone1, phone2) ==
  IF phone1 = "" \/ phone2 = "" THEN <<0, 10>>
  ELSE LET digits1 == digitsOnly(phone1)
           digits2 == digitsOnly(phone2)
       IN IF digits1 = digits2 THEN <<10, 10>>
          ELSE IF includes(digits1, digits2) \/ includes(digits2, digits1) THEN <<8, 10>>
          ELSE <<0, 10>>

websiteSimilarity(website1, website2) ==
  IF website1 = "" \/ website2 = "" THEN <<0, 1>>
  ELSE LET domain1 == extractDomain(website1)
           domain2 == extractDomain(website2)
       IN IF domain1 \in {NULL, ""} \/ domain2 \in {NULL, ""} THEN <<0, 1>>
          ELSE IF domain1 = domain2 THEN <<1, 1>>
          ELSE IF dropPrefix(domain1, "www.") = dropPrefix(domain2, "www.") THEN <<1, 1>>
          ELSE <<0, 1>>

emailSimilarity(email1, email2) ==
  IF email1 = "" \/ email2 = "" THEN <<0, 10>>
  ELSE IF email1 = email2 THEN <<10, 10>>
  ELSE LET domain1 == splitSecond(email1, "@")
           domain2 == splitSecond(email2, "@")
       IN IF domain1 # "" /\ domain2 # "" /\ domain1 = domain2 THEN <<7, 10>> ELSE <<0, 10>>

RECURSIVE Gcd(_, _)
Gcd(a, b) == IF b = 0 THEN a ELSE Gcd(b, a % b)
Reduced(f) == IF f[1] = 0 THEN <<0, 1>> ELSE <<f[1] \div Gcd(f[1], f[2]), f[2] \div Gcd(f[1], f[2])>>

\* The score combinations whose exact weighted sum is 0.85 and whose sum in
\* IEEE-754 doubles, added in the order of the code, is 0.8500000000000001:
\* <<name, phone*10, website, address, email*10>> with name and address as
\* reduced fractions of denominator at most 40.
RoundsAboveThreshold ==
  {
    <<1, 1, 8, 1, 4, 15, 10>>, <<1, 1, 8, 1, 14, 15, 0>>, <<1, 1, 10, 0, 1, 1, 10>>,
    <<1, 1, 10, 1, 0, 1, 10>>, <<1, 1, 10, 1, 1, 5, 7>>, <<1, 1, 10, 1, 2, 3, 0>>,
    <<3, 4, 8, 1, 14, 15, 10>>, <<4, 5, 8, 1, 1, 1, 7>>, <<4, 5, 8, 1, 4, 5, 10>>,
    <<5, 6, 10, 1, 4, 9, 10>>, <<6, 7, 10, 1, 8, 21, 10>>, <<7, 8, 10, 1, 1, 1, 0>>,
    <<7, 8, 10, 1, 1, 3, 10>>, <<8, 9, 10, 1, 26, 27, 0>>, <<8, 11, 10, 1, 8, 11, 10>>,
    <<9, 10, 10, 1, 4, 15, 10>>, <<9, 10, 10, 1, 14, 15, 0>>, <<9, 11, 10, 1, 16, 33, 10>>,
    <<10, 11, 10, 1, 8, 33, 10>>, <<10, 11, 10, 1, 10, 11, 0>>, <<11, 13, 10, 1, 16, 39, 10>>,
    <<14, 15, 8, 1, 4, 9, 10>>, <<17, 24, 10, 1, 7, 9, 10>>, <<19, 20, 10, 1, 1, 3, 7>>,
    <<19, 20, 10, 1, 2, 15, 10>>, <<19, 20, 10, 1, 4, 5, 0>>, <<20, 29, 10, 1, 24, 29, 10>>,
    <<22, 25, 10, 1, 8, 25, 10>>, <<23, 24, 10, 1, 1, 9, 10>>, <<23, 24, 10, 1, 7, 9, 0>>,
    <<23, 25, 10, 1, 22, 25, 0>>, <<23, 26, 10, 1, 38, 39, 0>>, <<25, 26, 10, 1, 10, 13, 0>>,
    <<25, 28, 10, 1, 20, 21, 0>>, <<27, 28, 10, 1, 16, 21, 0>>, <<27, 32, 10, 1, 5, 12, 10>>,
    <<27, 35, 10, 1, 17, 21, 7>>, <<28, 29, 10, 1, 22, 29, 0>>, <<29, 30, 8, 1, 5, 9, 7>>,
    <<29, 31, 10, 1, 26, 31, 0>>, <<31, 32, 8, 1, 7, 20, 10>>, <<31, 32, 8, 1, 11, 20, 7>>,
    <<31, 32, 10, 1, 3, 4, 0>>, <<31, 35, 8, 1, 4, 7, 10>>, <<31, 36, 10, 1, 10, 27, 10>>,
    <<31, 37, 10, 1, 16, 37, 10>>, <<31, 40, 8, 1, 13, 15, 10>>, <<35, 36, 10, 1, 20, 27, 0>>,
    <<35, 37, 10, 1, 30, 37, 0>>, <<37, 38, 10, 1, 14, 19, 0>>, <<37, 40, 10, 1, 1, 5, 10>>,
    <<37, 40, 10, 1, 13, 15, 0>>, <<39, 40, 8, 1, 1, 1, 0>>, <<39, 40, 8, 1, 1, 3, 10>>,
    <<39, 40, 10, 1, 1, 15, 10>>, <<39, 40, 10, 1, 4, 15, 7>>, <<39, 40, 10, 1, 11, 15, 0>> }

\* lines 31-69: calculateSimilarity(business1, business2), the five scores
\* weighted 0.4, 0.2, 0.15, 0.15, 0.1: the sum is total / (1000 * scale), of
\* which extra / (1000 * scale) comes from the address and the email
calculateSimilarity(business1, business2) ==
  LET weighted(nameScore, phoneScore, websiteScore, addressScore, emailScore) ==
        LET scale == nameScore[2] * addressScore[2]
            extra == 150 * addressScore[1] * nameScore[2] + 10 * emailScore[1] * scale
            n == Reduced(nameScore)
            a == Reduced(addressScore)
        IN [total |-> 400 * nameScore[1] * addressScore[2]
                      + 20 * phoneScore[1] * scale
                      + 150 * websiteScore[1] * scale
                      + extra,
            scale |-> scale,
            extra |-> extra,
            scores |-> <<n[1], n[2], phoneScore[1], websiteScore[1], a[1], a[2],
                         emailScore[1]>>]
  IN CHOOSE similarity \in
       {weighted(score[1], score[2], score[3], score[4], score[5]) :
          score \in {<<stringSimilarity(normalizeBusinessName(business1.name),
                                        normalizeBusinessName(business2.name)),
                       phoneSimilarity(business1.phone, business2.phone),
                       websiteSimilarity(business1.website, business2.website),
                       stringSimilarity(normalizeAddress(business1.address),
                                        normalizeAddress(business2.address)),
                       emailSimilarity(business1.email, business2.email)>>}} : TRUE

\* line 16: calculateSimilarity(business1, business2) > 0.85
calculateSimilarityExceeds(business1, business2) ==
  \E similarity \in {calculateSimilarity(business1, business2)} :
     \/ similarity.total > 850 * similarity.scale
     \/ /\ similarity.total = 850 * similarity.scale
        /\ similarity.scores \in RoundsAboveThreshold

RECURSIVE removeDuplicatesFrom(_, _, _)
\* the loop of removeDuplicates: the accepted records and their signatures
removeDuplicatesFrom(businesses, unique, seen) ==
  IF businesses = <<>> THEN unique
  ELSE LET business == Head(businesses)
           signature == createBusinessSignature(business)
           isDuplicate == \E k \in 1..Len(unique) : calculateSimilarityExceeds(business, unique[k])
       IN IF signature \notin seen /\ ~isDuplicate
          THEN removeDuplicatesFrom(Tail(businesses), Append(unique, business), seen \cup {signature})
          ELSE removeDuplicatesFrom(Tail(businesses), unique, seen)

\* a pass that scans the list from its end
keepLast(businesses) ==
  LET backwards(list) == [k \in 1..Len(list) |-> list[Len(list) + 1 - k]]
  IN backwards(removeDuplicatesFrom(backwards(businesses), <<>>, {}))

\* a pass that stops at the first record it drops
dropFirstDuplicate(businesses) ==
  IF removeDuplicatesFrom(businesses, <<>>, {}) = businesses THEN businesses
  ELSE LET n == CHOOSE n \in 1..Len(businesses) :
                  /\ removeDuplicatesFrom(SubSeq(businesses, 1, n), <<>>, {})
                       # SubSeq(businesses, 1, n)
                  /\ removeDuplicatesFrom(SubSeq(businesses, 1, n - 1), <<>>, {})
                       = SubSeq(businesses, 1, n - 1)
       IN SubSeq(businesses, 1, n - 1) \o SubSeq(businesses, n + 1, Len(businesses))

\* a pass that keeps the first record only
keepFirst(businesses) == IF businesses = <<>> THEN <<>> ELSE <<Head(businesses)>>

removeDuplicates(businesses) == removeDuplicatesFrom(businesses, <<>>, {})

-----------------------------------------------------------------------------
(* Bounds and inputs of the model                                          *)

\* number of requests the route serves in one behaviour
MaxRequests == 2

\* the website lists a request may carry
WebsitesPool ==
  {<<>>,
   <<"not a url", "localhost">>,
   <<"example.com", "not a url", "localhost">>,
   <<"  ", "example.com.">>,
   <<"www.example.com", "shop.io", "not a url", "example.com", "https://www.example.com/">>}

\* the filters a request may carry
LocationPool == {"", "Austin TX"}
BusinessTypePool == {""}

\* what a page may yield as first phone and first email of an extraction
ContactPool ==
  {[phone |-> "", email |-> ""], [phone |-> "512-555-0134", email |-> "info@acme.org"]}

\* messages extractBusinessInfoFromWebsite may see thrown inside its try block
ThrownMessages ==
  {"Request timeout after 30 seconds",
   "Page not found (404): Website may not exist",
   "fetch failed"}

-----------------------------------------------------------------------------
(* CacheManager                                                            *)

MAX_CACHE_SIZE == 1000
DEFAULT_TTL == 3600000
SEARCH_TTL == 1800000
CONTACTS_TTL == 86400000
CUSTOM_SCRAPE_TTL == 1800000
BUSINESS_INFO_TTL == 86400000

generateKey(prefix, params) ==
  prefix \o ":" \o replaceWhitespaceRuns(toLowerCase(join(params, ":")), "_")

\* a hash of the list in the order given
unsortedHash(arr) == substring(join(arr, "|"), 0, 50)

\* lines 167-169: arr.sort().join("|").substring(0, 50)
hashArray(arr) == substring(join(sort(arr), "|"), 0, 50)

\* an entry that expires as soon as its time to live is reached
expiredAtTtl(entry, t) == t - entry.timestamp >= entry.ttl

\* lines 46, 137, 178: Date.now() - entry.timestamp > entry.ttl
Expired(entry, t) == t - entry.timestamp > entry.ttl

\* a cleanup that empties the map
dropAll(c, t) == [k \in {} |-> c[k]]

\* cleanup(): the map without its expired entries
cleanup(c, t) == [k \in {k \in DOMAIN c : ~Expired(c[k], t)} |-> c[k]]

\* a set that keeps the entry a key already has
firstWriteWins(c, key, data, ttl, t) ==
  [k \in DOMAIN c \cup {key} |->
     IF k \in DOMAIN c THEN c[k] ELSE [data |-> data, timestamp |-> t, ttl |-> ttl]]

\* set(key, data, ttl): the map afterwards
CacheSet(c, key, data, ttl, t) ==
  LET c1 == IF Cardinality(DOMAIN c) >= MAX_CACHE_SIZE THEN cleanup(c, t) ELSE c
  IN [k \in DOMAIN c1 \cup {key} |->
        IF k = key THEN [data |-> data, timestamp |-> t, ttl |-> ttl] ELSE c1[k]]

\* get(key): whether it returns the data, and the map afterwards
CacheHit(c, key, t) == key \in DOMAIN c /\ ~Expired(c[key], t)
CacheAfterGet(c, key, t) ==
  IF key \in DOMAIN c /\ Expired(c[key], t)
  THEN [k \in DOMAIN c \ {key} |-> c[k]] ELSE c

customScrapeKey(sites, businessType, location) ==
  generateKey("custom_scrape", <<hashArray(sites), businessType, location>>)

contactsKey(url) == generateKey("contacts", <<url>>)

businessInfoKey(normalizedUrl, businessType, location) ==
  "ai_business_info:" \o normalizedUrl \o ":" \o businessType \o ":" \o location

\* one step of the clock, in ms: the shortest time to live in use
TickMs == SEARCH_TTL

-----------------------------------------------------------------------------
(* The custom-scrape route: POST                                           *)

VARIABLES
  body,            \* the request body: "malformed", "noarray" or "array"
  websites,        \* body.websites (sorted in place by hashArray)
  businessType,    \* body.businessType || ""
  location,        \* body.location || ""
  pc,              \* where processRequest is: "json", "batch", "delay", "done"
  validationErrors,
  limitedWebsites, \* [original, cleaned] of the URLs to process
  batchStart,      \* the loop variable i
  task,            \* per entry of limitedWebsites: the state of its promise
  businesses,
  detailedErrors,
  procResult,      \* what processRequest settled with
  response,        \* what POST returned to the caller
  timerFired,      \* the 5-minute timer has rejected timeoutPromise
  cache,           \* CacheManager.cache
  now,             \* Date.now()
  requests,        \* number of requests received so far
  log,             \* history: per task, the records and the errors it pushed
  prev             \* history: the last answer computed by the batch loop, when, and
                   \* under which key, while the entry it cached is fresh; and
                   \* whether the list was submitted again in another order

routeVars ==
  <<body, websites, businessType, location, pc, validationErrors, limitedWebsites,
    batchStart, task, businesses, detailedErrors, procResult, response, timerFired,
    cache, now, requests, log, prev>>

\* the state of the route without the cache and the clock
routeOnly ==
  <<body, websites, businessType, location, pc, validationErrors, limitedWebsites,
    batchStart, task, businesses, detailedErrors, procResult, response, timerFired,
    requests, log, prev>>

\* the state of a call of hybridContactExtraction
VARIABLES
  hUrl,      \* the argument of the running call
  hStage,    \* "idle", "Fetch", "AIExtract", "TraditionalExtract", "Done", "Failed"
  hEmails,   \* the result of extractEmailsEnhanced, once it has returned
  hResult,   \* the value returned, or the error thrown
  hFetchOk,  \* the page fetch returned an ok response and its text
  hAi,       \* "none", "ok" or "failed": how aiContactExtraction ended
  hTrace,    \* history: the stages the call has entered
  hWrites,   \* history: the contacts the call has written to the cache
  hCalls     \* number of calls so far

hybridVars == <<hUrl, hStage, hEmails, hResult, hFetchOk, hAi, hTrace, hWrites, hCalls>>

\* the state of a call of fetchWithEnhancedRetry
VARIABLES
  fMaxRetries, \* the argument maxRetries
  fAttempt,    \* the loop variable attempt
  fState,      \* "start", "waiting", "backoff", "returned", "failed"
  fError,      \* the message of the error thrown, or ""
  fOutcomes,   \* history: how each fetch issued so far has settled
  fDelays,     \* history: the backoff delays taken so far, in ms
  fIssued      \* history: number of fetches issued

fetchVars == <<fMaxRetries, fAttempt, fState, fError, fOutcomes, fDelays, fIssued>>

\* the state of a call of searchBusinesses
VARIABLES
  sQuery,     \* the argument query
  sPage,      \* the argument page
  sState,     \* "idle", "fetching", "sleeping", "parsing", "returned", "failed"
  sAttempt,   \* the loop variable attempt
  sLastError, \* the message of lastError, or ""
  sResult,    \* the value returned, or the error thrown
  sDelays,    \* history: the delays slept in this call, in ms
  sOutcomes,  \* history: how each fetchWithRedirects call of this call ended
  sWrites,    \* history: number of cache writes of this call
  sCache0,    \* history: the cache when this call began
  sCalls,     \* number of calls so far
  sStart      \* the start parameter of the URL requested (-1: none)

searchVars ==
  <<sQuery, sPage, sState, sAttempt, sLastError, sResult, sDelays, sOutcomes, sWrites,
    sCache0, sCalls, sStart>>

\* the callers of CacheManager, seen from the cache
VARIABLES
  cOp,        \* the last call: its method, key, and what it returned
  cLast,      \* history: per key, the last set() since the last clear(), and
              \* whether it replaced an entry holding other data
  cFilled     \* history: the content cache has been filled

cacheVars == <<cOp, cLast, cFilled>>

\* a caller that passes a list through DuplicateDetector.removeDuplicates
VARIABLES
  dInput,     \* the list of records
  dPasses,    \* number of passes made so far
  dOnce,      \* the list after one pass
  dResult     \* the list after the last pass

dedupVars == <<dInput, dPasses, dOnce, dResult>>

\* a caller that passes a record through BusinessDataValidator.validateBusinessResult
VARIABLES
  vRaw,       \* the record as extracted
  vPasses,    \* number of validations made so far
  vOnce,      \* the record after one validation
  vResult     \* the record after the last validation

validatorVars == <<vRaw, vPasses, vOnce, vResult>>

\* the catch block of the batch callback, for one URL of a batch
VARIABLES
  eUrl,       \* the URL as submitted
  eFailure,   \* the failure its extraction meets
  eEntry      \* the DetailedError pushed for it

catchVars == <<eUrl, eFailure, eEntry>>

\* the enrichment endpoints (scrape-emails, scrape-phones)
VARIABLES
  nField,     \* the field the endpoint fills: "email" or "phone"
  nBody,      \* the request body: malformed, without a list, or with one
  nInput,     \* the businesses of the request
  nUpdated,   \* updatedBusinesses
  nStart,     \* loop variable i: the first index of the current batch, from 0
  nTask,      \* the promise of each record: pending, extracting or settled
  nOutcome,   \* history: what the extraction of each record gave
  nResponse   \* the response, once sent

enrichVars == <<nField, nBody, nInput, nUpdated, nStart, nTask, nOutcome, nResponse>>

\* extractEmailFromWebsite and extractPhoneFromWebsite, one call at a time
VARIABLES
  xFn,        \* the function called: "email" or "phone" ("" before a call)
  xUrl,       \* its argument
  xStage,     \* "idle", "Hybrid", "Traditional", "ContactPage", "ContactHybrid", "Returned"
  xHybrid,    \* what the cache check of hybridContactExtraction returned, if it hit
  xContact,   \* the URL of the contact page, once resolved
  xReturn,    \* the value returned
  xHasOpenAI, \* process.env.OPENAI_API_KEY is set
  xCalls      \* number of calls so far

extractVars == <<xFn, xUrl, xStage, xHybrid, xContact, xReturn, xHasOpenAI, xCalls>>

\* the clients of the custom-scrape route, seen from its result cache
VARIABLES
  qFrom       \* history: per key, the request whose answer was cached last

keyVars == <<qFrom>>

\* the state of a call of fetchWithRedirects
VARIABLES
  rUrl,       \* the argument url
  rCurrent,   \* currentUrl
  rRedirects, \* redirects
  rState,     \* "idle", "fetching", "returned", "failed"
  rError,     \* the message of the error thrown, or ""
  rRequests,  \* history: the URLs requested, in order
  rResponses  \* history: the status and Location header of each response

redirectVars == <<rUrl, rCurrent, rRedirects, rState, rError, rRequests, rResponses>>

\* what the actions of one component leave alone
routeFrame == <<hybridVars, fetchVars, searchVars, cacheVars, dedupVars, validatorVars, catchVars, enrichVars, extractVars, keyVars, redirectVars>>
hybridFrame == <<routeOnly, fetchVars, searchVars, cacheVars, dedupVars, validatorVars, catchVars, enrichVars, extractVars, keyVars, redirectVars>>
fetchFrame == <<routeVars, hybridVars, searchVars, cacheVars, dedupVars, validatorVars, catchVars, enrichVars, extractVars, keyVars, redirectVars>>
searchFrame == <<routeOnly, hybridVars, fetchVars, cacheVars, dedupVars, validatorVars, catchVars, enrichVars, extractVars, keyVars, redirectVars>>
cacheFrame == <<routeOnly, hybridVars, fetchVars, searchVars, dedupVars, validatorVars, catchVars, enrichVars, extractVars, keyVars, redirectVars>>
dedupFrame == <<routeVars, hybridVars, fetchVars, searchVars, cacheVars, validatorVars, catchVars, enrichVars, extractVars, keyVars, redirectVars>>
validatorFrame == <<routeVars, hybridVars, fetchVars, searchVars, cacheVars, dedupVars, catchVars, enrichVars, extractVars, keyVars, redirectVars>>
catchFrame == <<routeVars, hybridVars, fetchVars, searchVars, cacheVars, dedupVars, validatorVars, enrichVars, extractVars, keyVars, redirectVars>>
enrichFrame == <<routeVars, hybridVars, fetchVars, searchVars, cacheVars, dedupVars, validatorVars, catchVars, extractVars, keyVars, redirectVars>>
extractFrame == <<routeOnly, hybridVars, fetchVars, searchVars, cacheVars, dedupVars, validatorVars, catchVars, enrichVars, keyVars, redirectVars>>
keyFrame == <<hybridVars, fetchVars, searchVars, cacheVars, dedupVars, validatorVars, catchVars, enrichVars, extractVars, redirectVars>>
redirectFrame == <<routeVars, hybridVars, fetchVars, searchVars, cacheVars, dedupVars, validatorVars, catchVars, enrichVars, extractVars, keyVars>>

concurrencyLimit == 3
maxWebsites == 50

NoResponse == [status |-> 0]

\* no answer of the batch loop is cached
NoAnswer == [result |-> NoResponse, at |-> 0, key |-> "", permuted |-> FALSE]

\* lines 82-120: one iteration of the validation loop
cleanWebsite(originalUrl) ==
  LET trimmed == trim(originalUrl)
      rest == stripSchemeAndWww(toLowerCase(trimmed))
      cleanUrl == "https://" \o rest
  IN IF trimmed = "" THEN [kind |-> "blank"]
     ELSE IF ~URLParses(rest) THEN [kind |-> "invalid", error |-> "Invalid URL: Invalid URL"]
     ELSE IF ~includes(URLHostname(rest), ".")
       THEN [kind |-> "invalid", error |-> "Invalid URL: Invalid domain format"]
     ELSE IF \/ includes(URLHostname(rest), "localhost")
             \/ includes(URLHostname(rest), "127.0.0.1")
             \/ IsIPv4Literal(URLHostname(rest))
       THEN [kind |-> "invalid", error |-> "Invalid URL: Local URLs not supported"]
     ELSE [kind |-> "valid", cleaned |-> cleanUrl]

RECURSIVE processedOf(_)
processedOf(sites) ==
  IF sites = <<>> THEN <<>>
  ELSE LET r == cleanWebsite(Head(sites))
       IN (IF r.kind = "valid" THEN <<[original |-> Head(sites), cleaned |-> r.cleaned]>>
           ELSE <<>>) \o processedOf(Tail(sites))

RECURSIVE validationErrorsOf(_)
validationErrorsOf(sites) ==
  IF sites = <<>> THEN <<>>
  ELSE LET r == cleanWebsite(Head(sites))
       IN (IF r.kind = "invalid"
           THEN <<[url |-> Head(sites), error |-> r.error, category |-> "validation"]>>
           ELSE <<>>) \o validationErrorsOf(Tail(sites))

\* lines 188-216: the category and the message recorded for a thrown error
categorize(errorMessage) ==
  IF includes(errorMessage, "timeout") \/ includes(errorMessage, "Request timeout")
    THEN [category |-> "timeout",
          error |-> "Website took too long to respond (timeout after 30 seconds)"]
  ELSE IF \/ includes(errorMessage, "Access denied")
          \/ includes(errorMessage, "403")
          \/ includes(errorMessage, "429")
    THEN [category |-> "network", error |-> "Website is blocking automated requests"]
  ELSE IF includes(errorMessage, "404") \/ includes(errorMessage, "not found")
    THEN [category |-> "network", error |-> "Website not found (404 error)"]
  ELSE IF includes(errorMessage, "Not a business website")
    THEN [category |-> "content", error |-> "Does not appear to be a business website"]
  ELSE IF includes(errorMessage, "Invalid URL")
    THEN [category |-> "validation", error |-> errorMessage]
  ELSE IF includes(errorMessage, "Server error") \/ includes(errorMessage, "5")
    THEN [category |-> "network",
          error |-> "Website server error - may be temporarily unavailable"]
  ELSE IF includes(errorMessage, "quota") \/ includes(errorMessage, "exceeded")
    THEN [category |-> "network",
          error |-> "AI service temporarily unavailable - using traditional extraction"]
  ELSE [category |-> "unknown", error |-> errorMessage]

errorStrings(errors) == [k \in 1..Len(errors) |-> errors[k].url \o ": " \o errors[k].error]

errorsByCategory(errors) ==
  [c \in {errors[k].category : k \in 1..Len(errors)} |->
     Cardinality({k \in 1..Len(errors) : errors[k].category = c})]

\* the entries of limitedWebsites in the batch that starts at index i
BatchOf(i, n) == {k \in 1..n : k > i /\ k <= i + concurrencyLimit}

InFlight == {"invalid", "cached", "fetching"}

normalizedOf(k) == validateWebsite(limitedWebsites[k].cleaned)

\* batch.map(async ...): every task of the batch runs to its first suspension:
\* extractBusinessInfoFromWebsite validates the URL, reads the cache and, on a
\* miss, issues the first fetch (part_002 lines 193-214)
startedTask(sites, k, c, bt, loc) ==
  LET normalizedUrl == validateWebsite(sites[k].cleaned)
  IN IF normalizedUrl = NULL THEN [st |-> "invalid"]
     ELSE IF CacheHit(c, businessInfoKey(normalizedUrl, bt, loc), now)
       THEN [st |-> "cached", data |-> c[businessInfoKey(normalizedUrl, bt, loc)].data]
     ELSE [st |-> "fetching"]

startBatch(sites, i, tasks, c, bt, loc) ==
  [k \in 1..Len(sites) |->
     IF k \in BatchOf(i, Len(sites)) THEN startedTask(sites, k, c, bt, loc) ELSE tasks[k]]

\* the keys whose expired entries the cache reads of a starting batch delete
batchReads(sites, i, bt, loc) ==
  {businessInfoKey(validateWebsite(sites[k].cleaned), bt, loc) :
     k \in {j \in BatchOf(i, Len(sites)) : validateWebsite(sites[j].cleaned) # NULL}}

cacheAfterReads(c, keys) ==
  [k \in {k \in DOMAIN c : ~(k \in keys /\ Expired(c[k], now))} |-> c[k]]

\* a race that lets every settlement through
lastSettled(current, settled) == settled

\* Promise.race: the first settlement is the one POST returns
raceWinner(current, settled) == IF current = NoResponse THEN settled ELSE current

\* processRequest settles with r
Settle(r) ==
  /\ procResult' = r
  /\ response' = raceWinner(response, r)
  /\ pc' = "done"

\* a wait that ends with the first promise of the batch to settle
anySettled(tasks, i) == \E k \in BatchOf(i, Len(tasks)) : tasks[k].st = "settled"

\* await Promise.all(batchPromises): every promise of the batch has settled
batchSettled(tasks, i) == \A k \in BatchOf(i, Len(tasks)) : tasks[k].st = "settled"

errorResponse(message) ==
  [status |-> 500, error |-> message, businesses |-> <<>>, errors |-> <<message>>,
   stats |-> [total |-> 0, successful |-> 0, failed |-> 1,
              errorsByCategory |-> [c \in {"unknown"} |-> 1]]]

\* an answer that fails as a whole as soon as one URL has failed
allOrNothing(uniqueBusinesses, errors, total) ==
  IF \E k \in 1..Len(errors) : errors[k].category # "validation"
  THEN errorResponse(errors[Len(errors)].error)
  ELSE [status |-> 200, businesses |-> uniqueBusinesses, errors |-> errorStrings(errors),
        stats |-> [total |-> total, successful |-> Len(uniqueBusinesses),
                   failed |-> Len(errors), errorsByCategory |-> errorsByCategory(errors)],
        detailedErrors |-> errors]

\* an answer whose failed count leaves out the errors of the validation loop
failedTasksOnly(uniqueBusinesses, errors, total) ==
  [status |-> 200, businesses |-> uniqueBusinesses, errors |-> errorStrings(errors),
   stats |-> [total |-> total, successful |-> Len(uniqueBusinesses),
              failed |-> Cardinality({k \in 1..Len(errors) :
                                        errors[k].category # "validation"}),
              errorsByCategory |-> errorsByCategory(errors)],
   detailedErrors |-> errors]

\* lines 245-271: the answer after the last batch
successResponse(uniqueBusinesses, errors, total) ==
  [status |-> 200, businesses |-> uniqueBusinesses, errors |-> errorStrings(errors),
   stats |-> [total |-> total, successful |-> Len(uniqueBusinesses),
              failed |-> Len(errors), errorsByCategory |-> errorsByCategory(errors)],
   detailedErrors |-> errors]

\* a cache hit that counts the URLs without a record as failed
failedFromTotal(cached, total) ==
  [status |-> 200, businesses |-> cached, errors |-> <<>>,
   stats |-> [total |-> total, successful |-> Len(cached), failed |-> total - Len(cached),
              errorsByCategory |-> <<>>]]

\* lines 58-75: the answer on a cache hit
cachedResponse(cached, total) ==
  [status |-> 200, businesses |-> cached, errors |-> <<>>,
   stats |-> [total |-> total, successful |-> Len(cached), failed |-> 0,
              errorsByCategory |-> <<>>]]

\* a timer that is never set
neverRejects == NoResponse

\* lines 16-18: what timeoutPromise rejects with, through the catch block
timeoutRejection == errorResponse("Request timeout after 5 minutes")

RouteInit ==
  /\ body \in {"malformed", "noarray", "array"}
  /\ websites \in IF body = "array" THEN WebsitesPool ELSE {<<>>}
  /\ businessType \in BusinessTypePool
  /\ location \in LocationPool
  /\ pc = "json"
  /\ validationErrors = <<>>
  /\ limitedWebsites = <<>>
  /\ batchStart = 0
  /\ task = <<>>
  /\ businesses = <<>>
  /\ detailedErrors = <<>>
  /\ procResult = NoResponse
  /\ response = NoResponse
  /\ timerFired = FALSE
  /\ cache = <<>>
  /\ now = 0
  /\ requests = 1
  /\ log = <<>>
  /\ prev = NoAnswer

\* no cap on the number of websites
unlimitedWebsites(processedWebsites) == processedWebsites

\* lines 143-144: processedWebsites.slice(0, maxWebsites)
limitWebsites(processedWebsites) ==
  SubSeq(processedWebsites, 1, IF Len(processedWebsites) < maxWebsites
                               THEN Len(processedWebsites) ELSE maxWebsites)

\* lines 20-166: the body is parsed and checked, the cache is read, the URLs are
\* validated and the first batch is started
ProcessRequest ==
  /\ UNCHANGED <<routeFrame, prev>>
  /\ pc = "json"
  /\ UNCHANGED <<body, businessType, location, timerFired, now, requests, businesses>>
  /\ log' = [k \in 1..Len(processedOf(sort(websites))) |-> [business |-> 0, error |-> 0]]
  /\ IF body = "malformed" THEN
       /\ Settle(errorResponse("Unexpected end of JSON input"))
       /\ UNCHANGED <<websites, validationErrors, limitedWebsites, batchStart, task,
                      detailedErrors, cache>>
     ELSE IF body = "noarray" THEN
       /\ Settle([status |-> 400, error |-> "Invalid request body - websites must be an array",
                  businesses |-> <<>>, errors |-> <<>>])
       /\ UNCHANGED <<websites, validationErrors, limitedWebsites, batchStart, task,
                      detailedErrors, cache>>
     ELSE IF websites = <<>> THEN
       /\ Settle([status |-> 400, error |-> "No websites provided",
                  businesses |-> <<>>, errors |-> <<>>])
       /\ UNCHANGED <<websites, validationErrors, limitedWebsites, batchStart, task,
                      detailedErrors, cache>>
     ELSE
       LET key == customScrapeKey(websites, businessType, location)
           sorted == sort(websites)
           processed == processedOf(sorted)
           invalid == validationErrorsOf(sorted)
           limited == limitWebsites(processed)
           idle == [k \in 1..Len(limited) |-> [st |-> "pending"]]
           c1 == CacheAfterGet(cache, key, now)
       IN /\ websites' = sorted
          /\ IF CacheHit(cache, key, now) THEN
               /\ Settle(cachedResponse(cache[key].data, Len(websites)))
               /\ cache' = c1
               /\ UNCHANGED <<validationErrors, limitedWebsites, batchStart, task,
                              detailedErrors>>
             ELSE IF processed = <<>> THEN
               /\ Settle([status |-> 400, error |-> "No valid websites provided",
                          businesses |-> <<>>, errors |-> errorStrings(invalid),
                          stats |-> [total |-> Len(websites), successful |-> 0,
                                     failed |-> Len(invalid),
                                     errorsByCategory |->
                                       [c \in {"validation"} |-> Len(invalid)]]])
               /\ cache' = c1
               /\ validationErrors' = invalid
               /\ UNCHANGED <<limitedWebsites, batchStart, task, detailedErrors>>
             ELSE
               /\ validationErrors' = invalid
               /\ limitedWebsites' = limited
               /\ detailedErrors' = invalid
               /\ batchStart' = 0
               /\ task' = startBatch(limited, 0, idle, c1, businessType, location)
               /\ cache' = cacheAfterReads(c1, batchReads(limited, 0, businessType, location))
               /\ pc' = "batch"
               /\ UNCHANGED <<procResult, response>>

\* lines 168-226: the promise of one URL settles, with a record or an error
TaskSettleFrom(k, contactsPool, messages) ==
  /\ UNCHANGED <<routeFrame, prev>>
  /\ task[k].st \in InFlight
  /\ task' = [task EXCEPT ![k] = [st |-> "settled"]]
  /\ UNCHANGED <<body, websites, businessType, location, pc, validationErrors,
                 limitedWebsites, batchStart, procResult, response, timerFired, now,
                 requests>>
  /\ LET pushError(message) ==
           /\ detailedErrors' =
                Append(detailedErrors,
                       [url |-> limitedWebsites[k].original,
                        error |-> categorize(message).error,
                        category |-> categorize(message).category])
           /\ log' = [log EXCEPT ![k].error = @ + 1]
           /\ UNCHANGED <<businesses, cache>>
         pushBusiness(info, c) ==
           /\ businesses' = Append(businesses, info)
           /\ log' = [log EXCEPT ![k].business = @ + 1]
           /\ cache' = c
           /\ UNCHANGED detailedErrors
     IN \/ /\ task[k].st = "invalid"
           /\ pushError("Invalid URL format: " \o limitedWebsites[k].cleaned)
        \/ /\ task[k].st = "cached"
           /\ pushBusiness(task[k].data, cache)
        \/ /\ task[k].st = "fetching"
           /\ \E contacts \in contactsPool :
                LET validatedResult ==
                      validateBusinessResult(
                        [name |-> "Unknown Business", phone |-> contacts.phone,
                         email |-> contacts.email, website |-> normalizedOf(k),
                         address |-> location, category |-> businessType])
                IN pushBusiness(validatedResult,
                                CacheSet(cache,
                                         businessInfoKey(normalizedOf(k), businessType, location),
                                         validatedResult, BUSINESS_INFO_TTL, now))
        \/ /\ task[k].st = "fetching"
           /\ \E message \in messages :
                pushError(normalizedOf(k) \o ": " \o message)

\* the same, for any page content and any failure
TaskSettle(k) == TaskSettleFrom(k, ContactPool, ThrownMessages)

\* lines 229-236 and 238-271: Promise.all of the batch resolves; after the last
\* batch the result is deduplicated, cached and returned
BatchComplete ==
  /\ UNCHANGED <<routeFrame, prev>>
  /\ pc = "batch"
  /\ batchSettled(task, batchStart)
  /\ UNCHANGED <<body, websites, businessType, location, validationErrors, limitedWebsites,
                 batchStart, task, businesses, detailedErrors, timerFired, now, requests,
                 log>>
  /\ IF batchStart + concurrencyLimit < Len(limitedWebsites) THEN
       /\ pc' = "delay"
       /\ UNCHANGED <<procResult, response, cache>>
     ELSE
       LET uniqueBusinesses == removeDuplicates(businesses)
       IN /\ cache' = CacheSet(cache, customScrapeKey(websites, businessType, location),
                               uniqueBusinesses, CUSTOM_SCRAPE_TTL, now)
          /\ Settle(successResponse(uniqueBusinesses, detailedErrors, Len(limitedWebsites)))

\* lines 161-168: the inter-batch delay is over; the next batch starts
DelayElapsed ==
  /\ UNCHANGED <<routeFrame, prev>>
  /\ pc = "delay"
  /\ batchStart' = batchStart + concurrencyLimit
  /\ task' = startBatch(limitedWebsites, batchStart + concurrencyLimit, task, cache,
                        businessType, location)
  /\ cache' = cacheAfterReads(cache, batchReads(limitedWebsites, batchStart + concurrencyLimit,
                                                businessType, location))
  /\ pc' = "batch"
  /\ UNCHANGED <<body, websites, businessType, location, validationErrors, limitedWebsites,
                 businesses, detailedErrors, procResult, response, timerFired, now,
                 requests, log>>

\* lines 16-18 and 275-295: the timer rejects timeoutPromise; if the race is
\* still open, the catch block answers
TimeoutFire ==
  /\ UNCHANGED <<routeFrame, prev>>
  /\ ~timerFired
  /\ timerFired' = TRUE
  /\ response' = raceWinner(response, timeoutRejection)
  /\ UNCHANGED <<body, websites, businessType, location, pc, validationErrors,
                 limitedWebsites, batchStart, task, businesses, detailedErrors, procResult,
                 cache, now, requests, log>>

\* the time between the end of the work on a submission and its repeat: as
\* late as the cached answer lives
GapPool == {CUSTOM_SCRAPE_TTL}

\* the orders in which a list is submitted again
reverse(list) == [k \in 1..Len(list) |-> list[Len(list) + 1 - k]]
PermPool(list) == {list, reverse(list)}

\* the client submits the same URLs and filters again, in some order, gap ms
\* after the work on the previous submission is over; a new POST starts, with
\* its own timer
NewRequest(gap, resubmitted) ==
  /\ UNCHANGED routeFrame
  /\ pc = "done"
  /\ response # NoResponse
  /\ requests < MaxRequests
  /\ requests' = requests + 1
  /\ websites' = resubmitted
  /\ UNCHANGED <<body, businessType, location>>
  /\ pc' = "json"
  /\ validationErrors' = <<>>
  /\ limitedWebsites' = <<>>
  /\ batchStart' = 0
  /\ task' = <<>>
  /\ businesses' = <<>>
  /\ detailedErrors' = <<>>
  /\ procResult' = NoResponse
  /\ response' = NoResponse
  /\ timerFired' = FALSE
  /\ log' = <<>>
  /\ LET last == IF "detailedErrors" \in DOMAIN procResult
                 THEN [result |-> procResult, at |-> now,
                       key |-> customScrapeKey(websites, businessType, location),
                       permuted |-> FALSE]
                 ELSE prev
     IN prev' = IF now + gap - last.at <= CUSTOM_SCRAPE_TTL
                THEN [last EXCEPT !.permuted = resubmitted # sort(resubmitted)]
                ELSE NoAnswer
  /\ now' = now + gap
  /\ UNCHANGED cache

RouteNext ==
  \/ ProcessRequest
  \/ \E k \in DOMAIN task : TaskSettle(k)
  \/ BatchComplete
  \/ DelayElapsed
  \/ TimeoutFire
  \/ \E gap \in GapPool, resubmitted \in PermPool(websites) : NewRequest(gap, resubmitted)

-----------------------------------------------------------------------------
(* hybridContactExtraction(url)                                            *)

\* number of calls of hybridContactExtraction in one behaviour
MaxCalls == 2

HybridUrlPool == {"https://example.com/", "https://shop.io/"}
EmailListPool == {<<>>, <<"info@acme.org">>}
PhoneListPool == {<<>>, <<"512-555-0134">>}
\* what generateObject may resolve with, and the errors it may reject with
AIResultPool ==
  {[emails |-> e, phones |-> ph, confidence |-> [emails |-> 9, phones |-> 9]] :
     e \in EmailListPool, ph \in PhoneListPool}
AIErrorPool == {"You exceeded your current quota", "fetch failed",
                "No object generated: response did not match schema."}
\* the statuses the page fetch may resolve with (0: it rejects)
PageStatusPool == {200, 404, 503}

NotReturned == <<NULL>>
NoResult == [method |-> "none"]

HybridInit ==
  /\ hUrl = ""
  /\ hStage = "idle"
  /\ hEmails = NotReturned
  /\ hResult = NoResult
  /\ hFetchOk = FALSE
  /\ hAi = "none"
  /\ hTrace = <<>>
  /\ hWrites = <<>>
  /\ hCalls = 0

\* a cache check that takes every entry for a hit
anyContacts(contacts) == TRUE

\* line 138: cached && (cached.emails.length > 0 || cached.phones.length > 0)
nonEmptyContacts(contacts) == Len(contacts.emails) > 0 \/ Len(contacts.phones) > 0

\* lines 170-179: what the AI path writes to the cache for a result
aiCacheWrites(aiResult) == <<[emails |-> aiResult.emails, phones |-> aiResult.phones]>>

\* lines 194-197: what the fallback path writes to the cache for a result
traditionalCacheWrites(emails, phones) ==
  IF Len(emails) > 0 \/ Len(phones) > 0
  THEN <<[emails |-> emails, phones |-> phones]>> ELSE <<>>

\* cacheBusinessContacts(url, w) for every w of writes
cacheAfterWrites(c, url, writes) ==
  IF writes = <<>> THEN c ELSE CacheSet(c, contactsKey(url), writes[1], CONTACTS_TTL, now)

\* an extraction that goes on without the page
aiRegardless(ok) == "AIExtract"

\* lines 156-158 and 169-171: the stage after the page fetch has settled
stageAfterFetch(ok) == IF ok THEN "AIExtract" ELSE "Failed"

\* an extraction without the fallback
aiFailureFails == "Failed"

\* lines 180-185: the stage after aiContactExtraction has thrown
stageAfterAiFailure == "TraditionalExtract"

\* lines 136-154: the cache is checked; on a miss the page fetch is issued
HybridCall(url) ==
  /\ UNCHANGED hybridFrame
  /\ hStage \in {"idle", "Done", "Failed"}
  /\ hCalls < MaxCalls
  /\ hCalls' = hCalls + 1
  /\ hUrl' = url
  /\ hEmails' = NotReturned
  /\ hFetchOk' = FALSE
  /\ hAi' = "none"
  /\ hWrites' = <<>>
  /\ cache' = CacheAfterGet(cache, contactsKey(url), now)
  /\ IF CacheHit(cache, contactsKey(url), now) /\ nonEmptyContacts(cache[contactsKey(url)].data)
     THEN /\ hResult' = [emails |-> cache[contactsKey(url)].data.emails,
                         phones |-> cache[contactsKey(url)].data.phones,
                         confidence |-> [emails |-> 8, phones |-> 8],
                         method |-> "hybrid"]
          /\ hStage' = "Done"
          /\ hTrace' = <<"CacheCheck", "Done">>
     ELSE /\ hResult' = NoResult
          /\ hStage' = "Fetch"
          /\ hTrace' = <<"CacheCheck", "Fetch">>
  /\ UNCHANGED now

\* lines 148-171: the page fetch settles; when the response is ok and its text
\* has been read, aiContactExtraction is called
HybridFetchSettle ==
  /\ UNCHANGED hybridFrame
  /\ hStage = "Fetch"
  /\ \E outcome \in PageStatusPool \cup {0}, bodyRead \in BOOLEAN :
       LET ok == outcome = 200 /\ bodyRead
           message == IF outcome = 0 THEN "fetch failed"
                      ELSE IF outcome # 200
                        THEN "Failed to fetch " \o hUrl \o ": " \o ToString(outcome)
                      ELSE "terminated"
       IN /\ hFetchOk' = ok
          /\ hStage' = stageAfterFetch(ok)
          /\ hTrace' = IF stageAfterFetch(ok) = "Failed" THEN hTrace
                       ELSE Append(hTrace, stageAfterFetch(ok))
          /\ hResult' = IF stageAfterFetch(ok) = "Failed"
                        THEN [method |-> "thrown",
                              error |-> "Hybrid extraction failed: " \o message]
                        ELSE hResult
  /\ UNCHANGED <<hUrl, hEmails, hAi, hWrites, hCalls, cache, now>>

\* lines 171-179: aiContactExtraction returns; the result is cached and returned
HybridAiSuccess ==
  /\ UNCHANGED hybridFrame
  /\ hStage = "AIExtract"
  /\ \E aiResult \in AIResultPool :
       /\ hWrites' = hWrites \o aiCacheWrites(aiResult)
       /\ cache' = cacheAfterWrites(cache, hUrl, aiCacheWrites(aiResult))
       /\ hResult' = [emails |-> aiResult.emails, phones |-> aiResult.phones,
                      confidence |-> aiResult.confidence, method |-> "ai"]
  /\ hAi' = "ok"
  /\ hStage' = "Done"
  /\ hTrace' = Append(hTrace, "Done")
  /\ UNCHANGED <<hUrl, hEmails, hFetchOk, hCalls, now>>

\* lines 73-76 and 180-184: aiContactExtraction throws; extractEmailsEnhanced
\* is called
HybridAiFailure ==
  /\ UNCHANGED hybridFrame
  /\ hStage = "AIExtract"
  /\ \E error \in AIErrorPool :
       hResult' = IF stageAfterAiFailure = "Failed"
                  THEN [method |-> "thrown",
                        error |-> "Hybrid extraction failed: AI extraction failed: " \o error]
                  ELSE hResult
  /\ hAi' = "failed"
  /\ hStage' = stageAfterAiFailure
  /\ hTrace' = IF stageAfterAiFailure = "Failed" THEN hTrace
               ELSE Append(hTrace, stageAfterAiFailure)
  /\ UNCHANGED <<hUrl, hEmails, hFetchOk, hWrites, hCalls, cache, now>>

\* line 184: extractEmailsEnhanced returns (it catches every error);
\* extractPhonesEnhanced is called
HybridEmailsReturn ==
  /\ UNCHANGED hybridFrame
  /\ hStage = "TraditionalExtract"
  /\ hEmails = NotReturned
  /\ hEmails' \in EmailListPool
  /\ UNCHANGED <<hUrl, hStage, hResult, hFetchOk, hAi, hTrace, hWrites, hCalls, cache, now>>

\* lines 185-199: extractPhonesEnhanced returns; a non-empty result is cached
HybridPhonesReturn ==
  /\ UNCHANGED hybridFrame
  /\ hStage = "TraditionalExtract"
  /\ hEmails # NotReturned
  /\ \E phones \in PhoneListPool :
       /\ hWrites' = hWrites \o traditionalCacheWrites(hEmails, phones)
       /\ cache' = cacheAfterWrites(cache, hUrl, traditionalCacheWrites(hEmails, phones))
       /\ hResult' = [emails |-> hEmails, phones |-> phones,
                      confidence |-> [emails |-> 6, phones |-> 6],
                      method |-> "traditional"]
  /\ hStage' = "Done"
  /\ hTrace' = Append(hTrace, "Done")
  /\ UNCHANGED <<hUrl, hEmails, hFetchOk, hAi, hCalls, now>>

HybridNext ==
  \/ \E url \in HybridUrlPool : HybridCall(url)
  \/ HybridFetchSettle
  \/ HybridAiSuccess
  \/ HybridAiFailure
  \/ HybridEmailsReturn
  \/ HybridPhonesReturn

-----------------------------------------------------------------------------
(* fetchWithEnhancedRetry(url, maxRetries, timeoutMs)                      *)

\* largest maxRetries a call is made with
MaxAttempts == 5

StatusPool == {200, 400, 403, 404, 429, 500, 503}

timeoutMs == 30000

FetchInit ==
  /\ fMaxRetries \in 0..MaxAttempts
  /\ fAttempt = 0
  /\ fState = "start"
  /\ fError = ""
  /\ fOutcomes = <<>>
  /\ fDelays = <<>>
  /\ fIssued = 0

\* lines 61-74: the error thrown for a response that is not ok
statusError(status) ==
  IF status = 403 \/ status = 429
    THEN "Access denied (" \o ToString(status) \o "): Website may be blocking automated requests"
  ELSE IF status = 404 THEN "Page not found (404): Website may not exist"
  ELSE IF status >= 500
    THEN "Server error (" \o ToString(status) \o "): Website may be temporarily unavailable"
  ELSE "HTTP " \o ToString(status) \o ": "

\* a catch block that rethrows 404 only
only404(message) == includes(message, "404")

\* a catch block that rethrows the access-denied errors only
onlyAccessDenied(message) == includes(message, "Access denied")

\* lines 83-85: the errors that are rethrown at once
notRetried(message) == includes(message, "404") \/ includes(message, "Access denied")

RECURSIVE Pow2(_)
Pow2(n) == IF n = 0 THEN 1 ELSE 2 * Pow2(n - 1)

\* a backoff that doubles without a cap
uncappedDelay(attempt) == 1000 * Pow2(attempt)

\* line 89: Math.min(1000 * Math.pow(2, attempt), 5000)
backoffDelay(attempt) ==
  IF 1000 * Pow2(attempt) < 5000 THEN 1000 * Pow2(attempt) ELSE 5000

\* lines 34-53 and 95: the loop is entered and the first fetch issued, or,
\* with no attempt to make, the call fails
FetchStart ==
  /\ UNCHANGED fetchFrame
  /\ fState = "start"
  /\ IF fAttempt < fMaxRetries
     THEN /\ fState' = "waiting"
          /\ fIssued' = fIssued + 1
          /\ UNCHANGED fError
     ELSE /\ fState' = "failed"
          /\ fError' = "Failed to fetch after retries"
          /\ UNCHANGED fIssued
  /\ UNCHANGED <<fMaxRetries, fAttempt, fOutcomes, fDelays>>

\* lines 75-92: the catch block for an error that is not an abort
Caught(message, outcome) ==
  /\ fOutcomes' = Append(fOutcomes, outcome)
  /\ IF notRetried(message) THEN
       /\ fState' = "failed"
       /\ fError' = message
       /\ UNCHANGED <<fAttempt, fDelays>>
     ELSE IF fAttempt < fMaxRetries - 1 THEN
       /\ fState' = "backoff"
       /\ fDelays' = Append(fDelays, backoffDelay(fAttempt))
       /\ fError' = message
       /\ UNCHANGED fAttempt
     ELSE
       /\ fState' = "failed"
       /\ fError' = message
       /\ fAttempt' = fAttempt + 1
       /\ UNCHANGED fDelays
  /\ UNCHANGED <<fMaxRetries, fIssued>>

\* lines 55-74: the fetch resolves with a response
FetchRespond ==
  /\ UNCHANGED fetchFrame
  /\ fState = "waiting"
  /\ \E status \in StatusPool :
       IF status = 200
       THEN /\ fState' = "returned"
            /\ fOutcomes' = Append(fOutcomes, status)
            /\ UNCHANGED <<fMaxRetries, fAttempt, fError, fDelays, fIssued>>
       ELSE Caught(statusError(status), status)

\* the fetch rejects with a network error
FetchNetworkError ==
  /\ UNCHANGED fetchFrame
  /\ fState = "waiting"
  /\ Caught("fetch failed", 0)

\* a catch block that treats an abort like any other rejection
AbortRetried ==
  /\ UNCHANGED fetchFrame
  /\ fState = "waiting"
  /\ Caught("This operation was aborted", -1)

\* lines 39 and 79-81: the timer aborts the fetch
FetchAbort ==
  /\ UNCHANGED fetchFrame
  /\ fState = "waiting"
  /\ fState' = "failed"
  /\ fError' = "Request timeout after " \o ToString(timeoutMs \div 1000) \o " seconds"
  /\ fOutcomes' = Append(fOutcomes, -1)
  /\ UNCHANGED <<fMaxRetries, fAttempt, fDelays, fIssued>>

\* lines 36-53 and 90: the delay is over; the next attempt is issued
BackoffElapsed ==
  /\ UNCHANGED fetchFrame
  /\ fState = "backoff"
  /\ fAttempt' = fAttempt + 1
  /\ fState' = "waiting"
  /\ fIssued' = fIssued + 1
  /\ UNCHANGED <<fMaxRetries, fError, fOutcomes, fDelays>>

FetchNext ==
  \/ FetchStart
  \/ FetchRespond
  \/ FetchNetworkError
  \/ FetchAbort
  \/ BackoffElapsed

-----------------------------------------------------------------------------
(* searchBusinesses(query, page)                                           *)

\* number of calls of searchBusinesses in one behaviour
MaxSearchCalls == 2

\* number of steps the clock makes in one behaviour
MaxTicks == 2



QueryPool == {"pizza austin", "Pizza  Austin"}
PagePool == {1, 2}

\* the messages fetchWithRedirects may throw
SearchErrorPool ==
  {"Failed to fetch (429)", "Failed to fetch (503)", "fetch failed"}

\* the records a result page may hold
ListingPool ==
  {<<>>,
   <<[name |-> "Joe's Pizza", phone |-> "512-555-0134", email |-> "",
      website |-> "https://joespizza.com", address |-> "12 Main St",
      category |-> "Pizza"],
     [name |-> "Joe's Pizza", phone |-> "512-555-0134", email |-> "",
      website |-> "https://joespizza.com", address |-> "12 Main St",
      category |-> "Pizza"]>>}

\* the result pages: records, next-page link, result count
ResultPagePool ==
  {html \in [listing : ListingPool, hasNextPage : BOOLEAN, totalResults : {0, 7, 25}] :
     /\ html.listing = <<>> => ~html.hasNextPage /\ html.totalResults = 0
     /\ html.listing # <<>> => html.hasNextPage}

maxAttempts == 3
resultsPerPage == 10

\* line 68: const backoff = [2000, 5000, 10000]
backoff == <<2000, 5000, 10000>>

\* a key that leaves the page out
keyWithoutPage(query, loc, page) == generateKey("search", <<query, loc>>)

\* lines 57-68 of cache-manager.ts: the key of a search
searchKey(query, loc, page) == generateKey("search", <<query, loc, ToString(page)>>)

SearchInit ==
  /\ sQuery = ""
  /\ sPage = 1
  /\ sState = "idle"
  /\ sAttempt = 0
  /\ sLastError = ""
  /\ sResult = NoResult
  /\ sDelays = <<>>
  /\ sOutcomes = <<>>
  /\ sWrites = 0
  /\ sCache0 = <<>>
  /\ sCalls = 0
  /\ sStart = -1

\* a catch block that rethrows what it caught
lastErrorSurfaced(message) == message

\* lines 192-195: what the outer catch throws for a caught error
outerCatch(message) == "Failed to scrape business information"

\* lines 97 and 105: attempt < maxAttempts - 1
attemptsLeft(attempt) == attempt < maxAttempts - 1

\* lines 97-108: the delay slept after a failed attempt that is retried
retryDelay(message, attempt) ==
  IF includes(message, "429") THEN backoff[attempt + 1] ELSE 1000

\* a response whose page estimate ignores the next-page link
withoutNextPage(listing, page, hasNextPage, totalResults) ==
  [businesses |-> removeDuplicates([k \in 1..Len(listing) |-> validateBusinessResult(listing[k])]),
   pagination |->
     [currentPage |-> page, hasNextPage |-> hasNextPage, hasPreviousPage |-> page > 1,
      totalPages |-> IF totalResults # 0
                     THEN (totalResults + resultsPerPage - 1) \div resultsPerPage
                     ELSE page,
      totalResults |-> totalResults]]

\* lines 122-186: the response built from the parsed page
searchResponse(listing, page, hasNextPage, totalResults) ==
  [businesses |-> removeDuplicates([k \in 1..Len(listing) |-> validateBusinessResult(listing[k])]),
   pagination |->
     [currentPage |-> page, hasNextPage |-> hasNextPage, hasPreviousPage |-> page > 1,
      totalPages |-> IF totalResults # 0
                     THEN (totalResults + resultsPerPage - 1) \div resultsPerPage
                     ELSE page + (IF hasNextPage THEN 1 ELSE 0),
      totalResults |-> totalResults]]

\* an offset that counts the pages from 0
startOfNextPage(page) == page * resultsPerPage

\* lines 60-64: const start = (page - 1) * resultsPerPage
startOf(page) == (page - 1) * resultsPerPage

\* lines 50-76: the cache is read; on a miss the first attempt is made
SearchCall(query, page) ==
  /\ UNCHANGED searchFrame
  /\ sState \in {"idle", "returned", "failed"}
  /\ sCalls < MaxSearchCalls
  /\ sCalls' = sCalls + 1
  /\ sQuery' = query
  /\ sPage' = page
  /\ sAttempt' = 0
  /\ sLastError' = ""
  /\ sDelays' = <<>>
  /\ sOutcomes' = <<>>
  /\ sWrites' = 0
  /\ sCache0' = cache
  /\ cache' = CacheAfterGet(cache, searchKey(query, "", page), now)
  /\ IF CacheHit(cache, searchKey(query, "", page), now)
     THEN /\ sResult' = [method |-> "returned", value |-> cache[searchKey(query, "", page)].data]
          /\ sState' = "returned"
          /\ sStart' = -1
     ELSE /\ sResult' = NoResult
          /\ sState' = "fetching"
          /\ sStart' = startOf(page)
  /\ UNCHANGED now

\* lines 76-91: fetchWithRedirects returns a response
SearchAttemptOk ==
  /\ UNCHANGED searchFrame
  /\ sState = "fetching"
  /\ sState' = "parsing"
  /\ sOutcomes' = Append(sOutcomes, "ok")
  /\ UNCHANGED <<sQuery, sPage, sAttempt, sLastError, sResult, sDelays, sWrites, sCache0,
                 sCalls, sStart, cache, now>>

\* lines 92-111 and 192-195: fetchWithRedirects throws
SearchAttemptFails ==
  /\ UNCHANGED searchFrame
  /\ sState = "fetching"
  /\ \E message \in SearchErrorPool :
       /\ sLastError' = message
       /\ sOutcomes' = Append(sOutcomes, message)
       /\ IF attemptsLeft(sAttempt)
          THEN /\ sState' = "sleeping"
               /\ sDelays' = Append(sDelays, retryDelay(message, sAttempt))
               /\ UNCHANGED sResult
          ELSE /\ sState' = "failed"
               /\ sResult' = [method |-> "thrown", error |-> outerCatch(message)]
               /\ UNCHANGED sDelays
  /\ UNCHANGED <<sQuery, sPage, sAttempt, sWrites, sCache0, sCalls, sStart, cache, now>>

\* lines 99-108 and 74-76: the delay is over; the next attempt is made
SearchDelayElapsed ==
  /\ UNCHANGED searchFrame
  /\ sState = "sleeping"
  /\ sAttempt' = sAttempt + 1
  /\ sState' = "fetching"
  /\ UNCHANGED <<sQuery, sPage, sLastError, sResult, sDelays, sOutcomes, sWrites, sCache0,
                 sCalls, sStart, cache, now>>

\* lines 120-191: the page is read and parsed, the response cached and returned
SearchParsed ==
  /\ UNCHANGED searchFrame
  /\ sState = "parsing"
  /\ \E html \in ResultPagePool :
       LET r == searchResponse(html.listing, sPage, html.hasNextPage, html.totalResults)
       IN /\ sResult' = [method |-> "returned", value |-> r]
          /\ cache' = CacheSet(cache, searchKey(sQuery, "", sPage), r, SEARCH_TTL, now)
  /\ sWrites' = sWrites + 1
  /\ sState' = "returned"
  /\ UNCHANGED <<sQuery, sPage, sAttempt, sLastError, sDelays, sOutcomes, sCache0, sCalls, sStart,
                 now>>

\* lines 120 and 192-195: reading the body of the response fails
SearchBodyFails ==
  /\ UNCHANGED searchFrame
  /\ sState = "parsing"
  /\ sState' = "failed"
  /\ sResult' = [method |-> "thrown", error |-> outerCatch("terminated")]
  /\ UNCHANGED <<sQuery, sPage, sAttempt, sLastError, sDelays, sOutcomes, sWrites, sCache0,
                 sCalls, sStart, cache, now>>

\* time passes between two calls
SearchTick ==
  /\ UNCHANGED searchFrame
  /\ sState \in {"returned", "failed"}
  /\ now < MaxTicks * TickMs
  /\ now' = now + TickMs
  /\ UNCHANGED <<searchVars, cache>>

SearchNext ==
  \/ \E query \in QueryPool, page \in PagePool : SearchCall(query, page)
  \/ SearchAttemptOk
  \/ SearchAttemptFails
  \/ SearchDelayElapsed
  \/ SearchParsed
  \/ SearchBodyFails
  \/ SearchTick

-----------------------------------------------------------------------------
(* CacheManager under arbitrary callers                                    *)

\* the keys, values and times to live the callers use
KeyPool == {contactsKey("https://a.com"), contactsKey("https://b.com")}
DataPool == {"v1", "v2"}
TtlPool == {SEARCH_TTL, DEFAULT_TTL}

NoCall == [op |-> "none", key |-> "", hit |-> FALSE, data |-> NULL, size |-> 0]
NoWrite == [data |-> NULL, timestamp |-> 0, ttl |-> 0, over |-> FALSE]

CacheInit == cOp = NoCall /\ cLast = [k \in KeyPool |-> NoWrite] /\ cFilled = FALSE

\* lines 89-92: the key of cacheWebsiteContent for the n-th page
contentKey(n) == "content:" \o ToString(n)

\* lines 24-35: set(key, data, ttl)
CacheSetCall(key, data, ttl) ==
  /\ UNCHANGED cacheFrame
  /\ cache' = CacheSet(cache, key, data, ttl, now)
  /\ cOp' = [op |-> "set", key |-> key, hit |-> FALSE, data |-> data,
             size |-> Cardinality(DOMAIN cache)]
  /\ cLast' = [cLast EXCEPT ![key] =
                [data |-> data, timestamp |-> now, ttl |-> ttl,
                 over |-> key \in DOMAIN cache /\ cache[key].data # data]]
  /\ UNCHANGED <<now, cFilled>>

\* lines 40-52: get(key)
CacheGetCall(key) ==
  /\ UNCHANGED cacheFrame
  /\ cache' = CacheAfterGet(cache, key, now)
  /\ cOp' = [op |-> "get", key |-> key, hit |-> CacheHit(cache, key, now),
             data |-> IF CacheHit(cache, key, now) THEN cache[key].data ELSE NULL,
             size |-> Cardinality(DOMAIN cache)]
  /\ UNCHANGED <<now, cLast, cFilled>>

\* lines 174-184: has(key)
CacheHasCall(key) ==
  /\ UNCHANGED cacheFrame
  /\ cache' = CacheAfterGet(cache, key, now)
  /\ cOp' = [op |-> "has", key |-> key, hit |-> CacheHit(cache, key, now),
             data |-> NULL, size |-> Cardinality(DOMAIN cache)]
  /\ UNCHANGED <<now, cLast, cFilled>>

\* lines 132-145: cleanup()
CacheCleanupCall ==
  /\ UNCHANGED cacheFrame
  /\ cache' = cleanup(cache, now)
  /\ cOp' = [op |-> "cleanup", key |-> "", hit |-> FALSE, data |-> NULL,
             size |-> Cardinality(DOMAIN cache)]
  /\ UNCHANGED <<now, cLast, cFilled>>

\* lines 150-152: clear()
CacheClearCall ==
  /\ UNCHANGED cacheFrame
  /\ cache' = <<>>
  /\ cOp' = [op |-> "clear", key |-> "", hit |-> FALSE, data |-> NULL,
             size |-> Cardinality(DOMAIN cache)]
  /\ cLast' = [k \in KeyPool |-> NoWrite]
  /\ UNCHANGED <<now, cFilled>>

\* lines 24-35 and 89-92: pages are cached one after the other until the map
\* holds MAX_CACHE_SIZE entries; below the cap no set() runs cleanup()
CacheFill ==
  /\ UNCHANGED cacheFrame
  /\ ~cFilled
  /\ Cardinality(DOMAIN cache) < MAX_CACHE_SIZE
  /\ LET n == MAX_CACHE_SIZE - Cardinality(DOMAIN cache)
     IN /\ cache' = [k \in DOMAIN cache \cup {contentKey(i) : i \in 1..n} |->
                      IF k \in DOMAIN cache THEN cache[k]
                      ELSE [data |-> "html", timestamp |-> now, ttl |-> DEFAULT_TTL]]
        /\ cOp' = [op |-> "set", key |-> contentKey(n), hit |-> FALSE, data |-> "html",
                   size |-> MAX_CACHE_SIZE - 1]
  /\ cFilled' = TRUE
  /\ UNCHANGED <<now, cLast>>

\* time passes between two calls
CacheTick ==
  /\ UNCHANGED cacheFrame
  /\ now < MaxTicks * TickMs
  /\ now' = now + TickMs
  /\ UNCHANGED <<cache, cacheVars>>

CacheNext ==
  \/ \E key \in KeyPool, data \in DataPool, ttl \in TtlPool : CacheSetCall(key, data, ttl)
  \/ \E key \in KeyPool : CacheGetCall(key)
  \/ \E key \in KeyPool : CacheHasCall(key)
  \/ CacheCleanupCall
  \/ CacheClearCall
  \/ CacheTick

\* the same callers storing one value, and the filling of the content cache
CacheFullNext ==
  \/ \E key \in KeyPool : CacheSetCall(key, "v1", SEARCH_TTL)
  \/ \E key \in KeyPool : CacheGetCall(key)
  \/ \E key \in KeyPool : CacheHasCall(key)
  \/ CacheCleanupCall
  \/ CacheClearCall
  \/ CacheFill
  \/ CacheTick

-----------------------------------------------------------------------------
(* DuplicateDetector.removeDuplicates under repeated application           *)

\* length of the lists, and number of passes over a list
MaxRecords == 3
MaxPasses == 2

RecordPool ==
  {[name |-> "Joe's Pizza", phone |-> "(512) 555-0134", email |-> "info@joes.com",
    website |-> "https://joes.com", address |-> "12 Main St", category |-> "Pizza"],
   [name |-> "Joes Pizza Inc", phone |-> "512-555-0134", email |-> "info@joes.com",
    website |-> "https://www.joes.com/menu", address |-> "12 Main St", category |-> "Pizza"],
   [name |-> "Joe's Pizzas", phone |-> "512-555-0134", email |-> "eat@joes.com",
    website |-> "https://joes.com", address |-> "12 Main Street", category |-> "Pizza"],
   [name |-> "Joe's Pizza", phone |-> "512 555 0134", email |-> "",
    website |-> "https://joes.com", address |-> "", category |-> ""],
   [name |-> "Joes Pizza Inc", phone |-> "(512) 555-0134", email |-> "",
    website |-> "https://www.joes.com/", address |-> "", category |-> ""],
   [name |-> "Acme Bakery", phone |-> "", email |-> "",
    website |-> "https://acme.org", address |-> "", category |-> ""]}

ListsOf(pool, n) == UNION {[1..k -> pool] : k \in 0..n}

DedupInit ==
  /\ dInput \in ListsOf(RecordPool, MaxRecords)
  /\ dPasses = 0
  /\ dOnce = dInput
  /\ dResult = dInput

\* lines 7-26: one more pass over the result of the last
DedupPass ==
  /\ UNCHANGED dedupFrame
  /\ dPasses < MaxPasses
  /\ dPasses' = dPasses + 1
  /\ dResult' = removeDuplicates(dResult)
  /\ dOnce' = IF dPasses = 0 THEN removeDuplicates(dResult) ELSE dOnce
  /\ UNCHANGED dInput

DedupNext == DedupPass

\* no list is being deduplicated
DedupIdle == dInput = <<>> /\ dPasses = MaxPasses /\ dOnce = <<>> /\ dResult = <<>>

-----------------------------------------------------------------------------
(* BusinessDataValidator.validateBusinessResult under repeated application *)

\* number of validations of a record
MaxValidations == 2

RawNamePool == {"Joe's Pizza", "  Joe's   Pizza ", "X", " ", ""}
RawPhonePool ==
  {"(512) 555-0134", "512.555.0134 ext", "1-512-555-0134", "+1 (512) 555-0134",
   "555-0134", "+44 20 7946 0958", "012-555-0134", "10125550134", "555-1111111",
   "12345", ""}
RawEmailPool == {"info@joes.com", "test@joes.com", "joe@Mailinator.com", "joes.com", ""}
RawWebsitePool ==
  {"example.com", "www.example.com", "https://example.com/", "HTTP://WWW.Example.COM",
   " https://www.joes.com/Menu", "localhost", "192.168.1.1", "info@10.0.0.1",
   "joes.com@pizza", "joes", ""}
RawAddressPool == {"12 Main St", " 12  Main St", "NYC", ""}

ValidatorInit ==
  /\ vRaw \in [name : RawNamePool, phone : RawPhonePool, email : RawEmailPool,
               website : RawWebsitePool, address : RawAddressPool, category : {" Pizza "}]
  /\ vPasses = 0
  /\ vOnce = vRaw
  /\ vResult = vRaw

\* lines 364-373: one more validation, of the result of the last
ValidatePass ==
  /\ UNCHANGED validatorFrame
  /\ vPasses < MaxValidations
  /\ vPasses' = vPasses + 1
  /\ vResult' = validateBusinessResult(vResult)
  /\ vOnce' = IF vPasses = 0 THEN validateBusinessResult(vResult) ELSE vOnce
  /\ UNCHANGED vRaw

ValidatorNext == ValidatePass

\* no record is being validated
NoRecord == [name |-> "", phone |-> "", email |-> "", website |-> "", address |-> "", category |-> ""]
ValidatorIdle ==
  vRaw = NoRecord /\ vPasses = MaxValidations /\ vOnce = NoRecord /\ vResult = NoRecord

-----------------------------------------------------------------------------
(* The route on lists around the cap of maxWebsites                        *)

\* number of valid URLs a request may carry beyond maxWebsites
MaxOverCap == 2

siteUrl(n) == "shop" \o ToString(10 + n) \o ".io"
SiteList(n) == [k \in 1..n |-> siteUrl(k)]
CapWebsitesPool ==
  {SiteList(n) : n \in (maxWebsites - 1)..(maxWebsites + MaxOverCap)}
    \cup {<<"localhost">> \o reverse(SiteList(maxWebsites + MaxOverCap))}

CapInit ==
  /\ body = "array"
  /\ websites \in CapWebsitesPool
  /\ businessType = "" /\ location = ""
  /\ pc = "json"
  /\ validationErrors = <<>> /\ limitedWebsites = <<>> /\ batchStart = 0
  /\ task = <<>> /\ businesses = <<>> /\ detailedErrors = <<>>
  /\ procResult = NoResponse /\ response = NoResponse /\ timerFired = FALSE
  /\ cache = <<>> /\ now = 0 /\ requests = MaxRequests /\ log = <<>>
  /\ prev = NoAnswer

\* the sites at even positions yield a contact, those at odd positions fail,
\* and the sites of a batch answer in the order of their positions
CapTaskSettle(k) ==
  /\ \A j \in 1..(k - 1) : task[j].st \notin InFlight
  /\ TaskSettleFrom(k,
                    IF k % 2 = 0 THEN {[phone |-> "512-555-0134", email |-> ""]} ELSE {},
                    IF k % 2 = 1 THEN {"fetch failed"} ELSE {})

CapNext ==
  \/ ProcessRequest
  \/ \E k \in DOMAIN task : CapTaskSettle(k)
  \/ BatchComplete
  \/ DelayElapsed
  \/ TimeoutFire

-----------------------------------------------------------------------------
(* The catch block of the batch callback: one failing URL                  *)

\* URLs that pass the validation loop of the route
FailingUrlPool ==
  {"example.com", "www.joes.com", "acme.org/contact", "shop404.com", "cafe5.com",
   "timeout.co", "route429.io", "quota.app", "example.com.", "timeout.example.com."}

\* what can go wrong for a URL whose normalisation succeeds
FailurePool ==
  {"timeout", "status403", "status429", "status404", "notBusiness", "status500",
   "status503", "quota", "status418", "fetchFailed", "aiFailed"}

\* the error extractBusinessInfoFromWebsite throws inside its try block
innerMessage(failure) ==
  CASE failure = "timeout" -> "Request timeout after " \o ToString(timeoutMs \div 1000) \o " seconds"
    [] failure = "status403" -> statusError(403)
    [] failure = "status429" -> statusError(429)
    [] failure = "status404" -> statusError(404)
    [] failure = "status500" -> statusError(500)
    [] failure = "status503" -> statusError(503)
    [] failure = "status418" -> statusError(418)
    [] failure = "fetchFailed" -> "fetch failed"
    [] failure = "notBusiness" ->
         "Not a business website (confidence: 0%). Reasons: Known non-business platform"
    [] failure = "aiFailed" ->
         "AI extraction failed, no business information could be extracted"
    [] failure = "quota" -> "Hybrid extraction failed: You exceeded your current quota"

\* part_002 lines 193-196 and 285-288: the error that reaches the route
thrownMessage(cleaned, failure) ==
  IF failure = "invalidUrl" THEN "Invalid URL format: " \o cleaned
  ELSE validateWebsite(cleaned) \o ": " \o innerMessage(failure)

NoEntry == [url |-> "", error |-> "", category |-> ""]

CatchInit ==
  /\ eUrl \in FailingUrlPool
  /\ eFailure \in IF validateWebsite(cleanWebsite(eUrl).cleaned) = NULL
                   THEN {"invalidUrl"} ELSE FailurePool
  /\ eEntry = NoEntry

\* part_004 lines 186-224: the error is categorised and pushed
CatchFailure ==
  /\ UNCHANGED catchFrame
  /\ eEntry = NoEntry
  /\ LET errorMessage == thrownMessage(cleanWebsite(eUrl).cleaned, eFailure)
     IN eEntry' = [url |-> eUrl,
                   error |-> categorize(errorMessage).error,
                   category |-> categorize(errorMessage).category]
  /\ UNCHANGED <<eUrl, eFailure>>

CatchNext == CatchFailure

\* no URL is failing
CatchIdle == eUrl = "" /\ eFailure = "" /\ eEntry = NoEntry

-----------------------------------------------------------------------------
(* The enrichment endpoints                                                *)

\* number of records of a request
MaxEnrichRecords == 4

EnrichRecordPool ==
  {[name |-> "Joe's Pizza", phone |-> "(512) 555-0134", email |-> "info@joes.com",
    website |-> "https://joes.com", address |-> "12 Main St", category |-> "Pizza"],
   [name |-> "Acme Bakery", phone |-> "", email |-> "",
    website |-> "https://acme.org", address |-> "", category |-> ""],
   [name |-> "Corner Cafe", phone |-> "", email |-> "",
    website |-> "", address |-> "4 Oak Ave", category |-> "Cafe"],
   [name |-> "Acme Bakery", phone |-> "(512) 555-0199", email |-> "",
    website |-> "https://acme.org", address |-> "", category |-> ""],
   [name |-> "Blue Door Books", phone |-> "", email |-> "hello@bluedoor.com",
    website |-> "https://bluedoor.com", address |-> "", category |-> ""]}

\* lists of distinct records of the pool
EnrichLists ==
  {l \in ListsOf(EnrichRecordPool, MaxEnrichRecords) :
     \A i, j \in DOMAIN l : l[i] = l[j] => i = j}

\* what extractEmailFromWebsite / extractPhoneFromWebsite finds on a page
Found(field) == IF field = "email" THEN "contact@found.com" ELSE "(512) 555-0199"

\* a response not yet sent
NoReply == [status |-> 0]

EnrichInit ==
  /\ nField \in {"email", "phone"}
  /\ nBody \in {"malformed", "noarray", "array"}
  /\ nInput \in IF nBody = "array" THEN EnrichLists ELSE {<<>>}
  /\ nUpdated = <<>>
  /\ nStart = 0
  /\ nTask = <<>>
  /\ nOutcome = <<>>
  /\ nResponse = NoReply

\* every record with a website is processed
anyWebsite(business, field) == business.website # ""

\* business.website && !business.email (resp. phone)
needsExtraction(business, field) == business.website # "" /\ business[field] = ""

\* batch.map(async ...): every callback of the batch runs to its first await, or
\* to its end when the record needs no extraction
enrichBatch(list, i, tasks, field) ==
  [k \in 1..Len(list) |->
     IF k \in BatchOf(i, Len(list))
     THEN IF needsExtraction(list[k], field) THEN "extracting" ELSE "settled"
     ELSE tasks[k]]

enrichDone(list) == [status |-> 200, businesses |-> removeDuplicates(list)]

\* the request is parsed and the first batch starts; without records the loop
\* is skipped
EnrichRequest ==
  /\ UNCHANGED enrichFrame
  /\ nResponse = NoReply /\ nTask = <<>> /\ nUpdated = <<>> /\ nOutcome = <<>>
  /\ nBody # "done"
  /\ nBody' = "done"
  /\ UNCHANGED <<nField, nInput, nStart>>
  /\ IF nBody = "malformed" THEN
       /\ nResponse' = [status |-> 500, error |-> "Failed to process request"]
       /\ UNCHANGED <<nUpdated, nTask, nOutcome>>
     ELSE IF nBody = "noarray" THEN
       /\ nResponse' = [status |-> 400, error |-> "Invalid request body"]
       /\ UNCHANGED <<nUpdated, nTask, nOutcome>>
     ELSE
       /\ nUpdated' = nInput
       /\ nOutcome' = [k \in 1..Len(nInput) |-> "none"]
       /\ nTask' = enrichBatch(nInput, 0, [k \in 1..Len(nInput) |-> "pending"], nField)
       /\ nResponse' = IF nInput = <<>> THEN enrichDone(nInput) ELSE NoReply

\* the extraction of one record settles: a value, nothing, or an error
ExtractSettle(k, outcome) ==
  /\ UNCHANGED enrichFrame
  /\ nTask[k] = "extracting"
  /\ nTask' = [nTask EXCEPT ![k] = "settled"]
  /\ nOutcome' = [nOutcome EXCEPT ![k] = outcome]
  /\ nUpdated' = IF outcome = "found"
                 THEN [nUpdated EXCEPT ![k] = [nInput[k] EXCEPT ![nField] = Found(nField)]]
                 ELSE nUpdated
  /\ UNCHANGED <<nField, nBody, nInput, nStart, nResponse>>

\* Promise.all of the batch resolves: the next batch starts, or the list is
\* deduplicated and returned
EnrichBatchComplete ==
  /\ UNCHANGED enrichFrame
  /\ nResponse = NoReply /\ nTask # <<>>
  /\ \A k \in BatchOf(nStart, Len(nUpdated)) : nTask[k] = "settled"
  /\ UNCHANGED <<nField, nBody, nInput, nUpdated, nOutcome>>
  /\ IF nStart + concurrencyLimit < Len(nUpdated) THEN
       /\ nStart' = nStart + concurrencyLimit
       /\ nTask' = enrichBatch(nUpdated, nStart + concurrencyLimit, nTask, nField)
       /\ UNCHANGED nResponse
     ELSE
       /\ nResponse' = enrichDone(nUpdated)
       /\ UNCHANGED <<nStart, nTask>>

EnrichNext ==
  \/ EnrichRequest
  \/ \E k \in DOMAIN nTask, outcome \in {"found", "empty", "failed"} : ExtractSettle(k, outcome)
  \/ EnrichBatchComplete

\* no enrichment request
EnrichIdle ==
  /\ nField = "email" /\ nBody = "done" /\ nInput = <<>> /\ nUpdated = <<>> /\ nStart = 0
  /\ nTask = <<>> /\ nOutcome = <<>> /\ nResponse = [status |-> 200, businesses |-> <<>>]

-----------------------------------------------------------------------------
(* extractEmailFromWebsite(url), extractPhoneFromWebsite(url)              *)

\* number of calls of the two extractors in one behaviour
MaxExtractCalls == 2
\* number of steps of the clock in one behaviour
MaxExtractTicks == 1

\* one step of the clock, in ms: the contacts of a URL expire
ExtractTickMs == CONTACTS_TTL + 1

ExtractUrlPool == {"https://shop.io/about", "shop.io", ""}
\* the href of the first contact link of the page (NULL: no page or no link)
ContactHrefPool == {NULL, "/contact", "contact.html"}
FoundEmailsPool == {<<>>, <<"info@acme.org">>, <<"test@example.com">>}
FoundPhonesPool == {<<>>, <<"512-555-0134">>, <<"12345">>}

\* how a call of hybridContactExtraction that missed the cache may end
HybridOutcomes ==
  {[method |-> "thrown", emails |-> <<>>, phones |-> <<>>]}
  \cup {[method |-> m, emails |-> e, phones |-> ph] :
          m \in {"ai", "traditional"}, e \in FoundEmailsPool, ph \in FoundPhonesPool}

\* ai-enhanced-extractor.ts lines 173-177 and 194-197: what such a call writes
hybridWrites(outcome) ==
  IF outcome.method = "ai" THEN aiCacheWrites(outcome)
  ELSE IF outcome.method = "traditional"
    THEN traditionalCacheWrites(outcome.emails, outcome.phones)
  ELSE <<>>

\* ai-enhanced-extractor.ts lines 137-145: the result on a non-empty cache entry
hybridFromCache(c, url, t) ==
  IF CacheHit(c, contactsKey(url), t) /\ nonEmptyContacts(c[contactsKey(url)].data)
  THEN [method |-> "hybrid", emails |-> c[contactsKey(url)].data.emails,
        phones |-> c[contactsKey(url)].data.phones]
  ELSE NoResult

\* part_006 lines 400-402: result.phones.map(validatePhone).filter(phone !== null)
validPhonesOf(phones) ==
  SelectSeq([i \in 1..Len(phones) |-> validatePhone(phones[i])], LAMBDA phone : phone # NULL)

\* part_003 line 31: result.emails.filter(validateEmail)
validEmailsOf(emails) == SelectSeq(emails, LAMBDA email : validateEmail(email))

\* new URL(url).origin of an http(s) URL
originOf(url) == "https://" \o URLHostname(stripSchemeOnly(url))

\* part_006 lines 459-470: the contact URL for the href of the contact link
contactUrlOf(url, href) ==
  IF startsWith(href, "http") THEN href
  ELSE IF startsWith(href, "/") THEN originOf(url) \o href
  ELSE originOf(url) \o "/" \o href

ExtractInit ==
  /\ xFn = ""
  /\ xUrl = ""
  /\ xStage = "idle"
  /\ xHybrid = NoResult
  /\ xContact = ""
  /\ xReturn = NULL
  /\ xHasOpenAI \in BOOLEAN
  /\ xCalls = 0

\* part_003 lines 8-28 and part_006 lines 382-397: the argument is checked, the
\* cache is read, and on a miss the extraction is started
ExtractCall(fn, url) ==
  /\ UNCHANGED extractFrame
  /\ xStage \in {"idle", "Returned"}
  /\ xCalls < MaxExtractCalls
  /\ xCalls' = xCalls + 1
  /\ xFn' = fn
  /\ xUrl' = url
  /\ xContact' = ""
  /\ IF url = "" \/ ~startsWith(url, "http")
     THEN /\ xReturn' = NULL
          /\ xStage' = "Returned"
          /\ xHybrid' = NoResult
          /\ UNCHANGED cache
     ELSE LET key == contactsKey(url)
              cached == IF CacheHit(cache, key, now) THEN cache[key].data
                        ELSE [emails |-> <<>>, phones |-> <<>>]
              list == IF fn = "email" THEN cached.emails ELSE cached.phones
          IN /\ cache' = CacheAfterGet(cache, key, now)
             /\ IF Len(list) > 0
                THEN /\ xReturn' = list[1]
                     /\ xStage' = "Returned"
                     /\ xHybrid' = NoResult
                ELSE /\ xReturn' = NULL
                     /\ IF fn = "phone" \/ xHasOpenAI
                        THEN /\ xStage' = "Hybrid"
                             /\ xHybrid' = hybridFromCache(cache, url, now)
                        ELSE /\ xStage' = "Traditional"
                             /\ xHybrid' = NoResult
  /\ UNCHANGED <<xHasOpenAI, now>>

\* part_003 lines 28-47 and part_006 lines 397-413: hybridContactExtraction
\* settles; valid contacts are cached and the first is returned
ExtractHybridSettle ==
  /\ UNCHANGED extractFrame
  /\ xStage = "Hybrid"
  /\ \E outcome \in (IF xHybrid # NoResult THEN {xHybrid} ELSE HybridOutcomes) :
       LET c1 == IF xHybrid # NoResult THEN cache
                 ELSE cacheAfterWrites(cache, xUrl, hybridWrites(outcome))
           validPhones == validPhonesOf(outcome.phones)
           validEmails == validEmailsOf(outcome.emails)
       IN IF outcome.method = "thrown"
          THEN /\ cache' = c1
               /\ xReturn' = NULL
               /\ xStage' = IF xFn = "phone" THEN "Returned" ELSE "Traditional"
          ELSE IF xFn = "phone" /\ Len(validPhones) > 0
          THEN /\ cache' = cacheAfterWrites(c1, xUrl,
                             <<[emails |-> outcome.emails, phones |-> validPhones]>>)
               /\ xReturn' = validPhones[1]
               /\ xStage' = "Returned"
          ELSE IF xFn = "email" /\ Len(validEmails) > 0
          THEN /\ cache' = cacheAfterWrites(c1, xUrl,
                             <<[emails |-> validEmails, phones |-> outcome.phones]>>)
               /\ xReturn' = validEmails[1]
               /\ xStage' = "Returned"
          ELSE /\ cache' = c1
               /\ xReturn' = NULL
               /\ xStage' = IF xFn = "phone" THEN "ContactPage" ELSE "Traditional"
  /\ UNCHANGED <<xFn, xUrl, xHybrid, xContact, xHasOpenAI, xCalls, now>>

\* part_003 lines 50-64: extractEmailsEnhanced returns (it catches every error)
ExtractTraditionalSettle ==
  /\ UNCHANGED extractFrame
  /\ xStage = "Traditional"
  /\ \E emails \in FoundEmailsPool :
       LET validEmails == validEmailsOf(emails)
       IN IF Len(validEmails) > 0
          THEN /\ cache' = cacheAfterWrites(cache, xUrl,
                             <<[emails |-> validEmails, phones |-> <<>>]>>)
               /\ xReturn' = validEmails[1]
               /\ xStage' = "Returned"
          ELSE /\ xReturn' = NULL
               /\ xStage' = "ContactPage"
               /\ UNCHANGED cache
  /\ UNCHANGED <<xFn, xUrl, xHybrid, xContact, xHasOpenAI, xCalls, now>>

\* part_003 lines 66-81 and 88-134: tryContactPage settles, with the first valid
\* email of the contact page or null
ExtractContactPageEmail ==
  /\ UNCHANGED extractFrame
  /\ xStage = "ContactPage"
  /\ xFn = "email"
  /\ \E href \in ContactHrefPool, emails \in FoundEmailsPool :
       LET validEmails == validEmailsOf(emails)
       IN IF href # NULL /\ Len(validEmails) > 0
          THEN /\ cache' = cacheAfterWrites(cache, xUrl,
                             <<[emails |-> <<validEmails[1]>>, phones |-> <<>>]>>)
               /\ xReturn' = validEmails[1]
               /\ xContact' = contactUrlOf(xUrl, href)
          ELSE /\ xReturn' = NULL
               /\ xContact' = IF href = NULL THEN "" ELSE contactUrlOf(xUrl, href)
               /\ UNCHANGED cache
  /\ xStage' = "Returned"
  /\ UNCHANGED <<xFn, xUrl, xHybrid, xHasOpenAI, xCalls, now>>

\* part_006 lines 436-472: tryContactPageForPhone has read the page; without a
\* contact link it returns null, with one it calls hybridContactExtraction
ExtractContactLink ==
  /\ UNCHANGED extractFrame
  /\ xStage = "ContactPage"
  /\ xFn = "phone"
  /\ \E href \in ContactHrefPool :
       IF href = NULL
       THEN /\ xStage' = "Returned"
            /\ xReturn' = NULL
            /\ UNCHANGED <<xContact, xHybrid, cache>>
       ELSE /\ xStage' = "ContactHybrid"
            /\ xContact' = contactUrlOf(xUrl, href)
            /\ cache' = CacheAfterGet(cache, contactsKey(contactUrlOf(xUrl, href)), now)
            /\ xHybrid' = hybridFromCache(cache, contactUrlOf(xUrl, href), now)
            /\ UNCHANGED xReturn
  /\ UNCHANGED <<xFn, xUrl, xHasOpenAI, xCalls, now>>

\* part_006 lines 472-481 and 415-430: the extraction of the contact page
\* settles; its first valid phone is cached for the URL and returned
ExtractContactHybridSettle ==
  /\ UNCHANGED extractFrame
  /\ xStage = "ContactHybrid"
  /\ \E outcome \in (IF xHybrid # NoResult THEN {xHybrid} ELSE HybridOutcomes) :
       LET c1 == IF xHybrid # NoResult THEN cache
                 ELSE cacheAfterWrites(cache, xContact, hybridWrites(outcome))
           validPhones == validPhonesOf(outcome.phones)
       IN IF outcome.method # "thrown" /\ Len(validPhones) > 0
          THEN /\ cache' = cacheAfterWrites(c1, xUrl,
                             <<[emails |-> <<>>, phones |-> <<validPhones[1]>>]>>)
               /\ xReturn' = validPhones[1]
          ELSE /\ cache' = c1
               /\ xReturn' = NULL
  /\ xStage' = "Returned"
  /\ UNCHANGED <<xFn, xUrl, xHybrid, xContact, xHasOpenAI, xCalls, now>>

\* time passes between two calls
ExtractTick ==
  /\ UNCHANGED extractFrame
  /\ xStage \in {"idle", "Returned"}
  /\ now < MaxExtractTicks * ExtractTickMs
  /\ now' = now + ExtractTickMs
  /\ UNCHANGED <<extractVars, cache>>

ExtractNext ==
  \/ \E fn \in {"email", "phone"}, url \in ExtractUrlPool : ExtractCall(fn, url)
  \/ ExtractHybridSettle
  \/ ExtractTraditionalSettle
  \/ ExtractContactPageEmail
  \/ ExtractContactLink
  \/ ExtractContactHybridSettle
  \/ ExtractTick

ExtractIdle ==
  /\ xFn = "" /\ xUrl = "" /\ xStage = "idle" /\ xHybrid = NoResult /\ xContact = ""
  /\ xReturn = NULL /\ xHasOpenAI = FALSE /\ xCalls = 0

-----------------------------------------------------------------------------
(* Requests of different clients on the result cache of the route          *)

SiteA == "alpha-restaurant.com"
SiteB == "bravo-restaurant.com"
SiteC == "charlie-restaurant.com"
SiteD == "charlie-restaurant.net"
SiteE == "delta-restaurant.com"
KeyWebsitesPool ==
  {<<SiteC, SiteA, SiteB, SiteE>>, <<SiteA, SiteB, SiteD, SiteE>>,
   <<SiteA, SiteB>>, <<SiteB, SiteA>>}

KeyInit ==
  /\ body = "array"
  /\ websites \in KeyWebsitesPool
  /\ businessType = ""
  /\ location \in LocationPool
  /\ pc = "json"
  /\ validationErrors = <<>> /\ limitedWebsites = <<>> /\ batchStart = 0
  /\ task = <<>> /\ businesses = <<>> /\ detailedErrors = <<>>
  /\ procResult = NoResponse /\ response = NoResponse /\ timerFired = FALSE
  /\ cache = <<>> /\ now = 0 /\ requests = 1 /\ log = <<>>
  /\ prev = NoAnswer
  /\ qFrom = <<>>

\* a client submits a list and filters, gap ms after the work on the previous
\* submission is over; a new POST starts, with its own timer
KeyRequest(gap, list, loc) ==
  /\ UNCHANGED keyFrame
  /\ pc = "done"
  /\ response # NoResponse
  /\ requests < MaxRequests
  /\ requests' = requests + 1
  /\ websites' = list
  /\ location' = loc
  /\ UNCHANGED <<body, businessType, prev>>
  /\ pc' = "json"
  /\ validationErrors' = <<>>
  /\ limitedWebsites' = <<>>
  /\ batchStart' = 0
  /\ task' = <<>>
  /\ businesses' = <<>>
  /\ detailedErrors' = <<>>
  /\ procResult' = NoResponse
  /\ response' = NoResponse
  /\ timerFired' = FALSE
  /\ log' = <<>>
  /\ qFrom' = IF "detailedErrors" \in DOMAIN procResult
              THEN LET key == customScrapeKey(websites, businessType, location)
                   IN [k \in DOMAIN qFrom \cup {key} |->
                         IF k = key
                         THEN [urls |-> {websites[i] : i \in DOMAIN websites},
                               businessType |-> businessType, location |-> location]
                         ELSE qFrom[k]]
              ELSE qFrom
  /\ now' = now + gap
  /\ UNCHANGED cache

KeyNext ==
  \/ ProcessRequest
  \/ \E k \in DOMAIN task : CapTaskSettle(k)
  \/ BatchComplete
  \/ DelayElapsed
  \/ TimeoutFire
  \/ \E gap \in GapPool, list \in KeyWebsitesPool, loc \in LocationPool :
       KeyRequest(gap, list, loc)

KeyIdle == qFrom = <<>>

-----------------------------------------------------------------------------
(* fetchWithRedirects(url, options, maxRedirects)                          *)

\* part_006 line 18: maxRedirects = 5
maxRedirects == 5

RedirectUrlPool == {"https://www.google.com/search", "https://maps.google.com/local"}
RedirectStatusPool == {200, 302, 304, 429}
\* the Location header of a response (NULL: none)
LocationHeaderPool == {NULL, "https://www.google.com/search", "/sorry/index", "ml"}

RedirectInit ==
  /\ rUrl = ""
  /\ rCurrent = ""
  /\ rRedirects = 0
  /\ rState = "idle"
  /\ rError = ""
  /\ rRequests = <<>>
  /\ rResponses = <<>>

\* a loop that allows one redirect more
oneMoreRedirect(redirects) == redirects <= maxRedirects + 1

\* part_006 line 26: while (redirects <= maxRedirects)
withinRedirects(redirects) == redirects <= maxRedirects

\* part_006 line 33: [301, 302, 303, 307, 308].includes(res.status)
isRedirect(status) == status \in {301, 302, 303, 307, 308}

\* part_006 line 39: next.startsWith("http") ? next : new URL(next, currentUrl).href
resolveLocation(next, currentUrl) ==
  IF startsWith(next, "http") THEN next
  ELSE IF startsWith(next, "/") THEN originOf(currentUrl) \o next
  ELSE LET slashes == {i \in 9..Len(currentUrl) : Char(currentUrl, i) = "/"}
       IN IF slashes = {} THEN currentUrl \o "/" \o next
          ELSE SubSeq(currentUrl, 1, SetMax(slashes)) \o next

\* part_006 lines 18-27: the loop is entered and the first request issued
RedirectCall(url) ==
  /\ UNCHANGED redirectFrame
  /\ rState = "idle"
  /\ rUrl' = url
  /\ rCurrent' = url
  /\ rRedirects' = 0
  /\ rError' = ""
  /\ rResponses' = <<>>
  /\ IF withinRedirects(0)
     THEN /\ rState' = "fetching"
          /\ rRequests' = <<url>>
     ELSE /\ rState' = "failed"
          /\ rRequests' = <<>>

\* part_006 lines 27-47: a response arrives; it is returned, or it is a
\* redirect that is followed while the loop goes on, or the call fails
RedirectRespond(status, next) ==
  /\ UNCHANGED redirectFrame
  /\ rState = "fetching"
  /\ rResponses' = Append(rResponses, [status |-> status, location |-> next])
  /\ IF status >= 200 /\ status < 300 THEN
       /\ rState' = "returned"
       /\ UNCHANGED <<rCurrent, rRedirects, rError, rRequests>>
     ELSE IF isRedirect(status) THEN
       IF next = NULL THEN
         /\ rState' = "failed"
         /\ rError' = "Redirect (" \o ToString(status) \o ") without Location header"
         /\ UNCHANGED <<rCurrent, rRedirects, rRequests>>
       ELSE
         /\ rCurrent' = resolveLocation(next, rCurrent)
         /\ rRedirects' = rRedirects + 1
         /\ IF withinRedirects(rRedirects + 1)
            THEN /\ rRequests' = Append(rRequests, resolveLocation(next, rCurrent))
                 /\ UNCHANGED <<rState, rError>>
            ELSE /\ rState' = "failed"
                 /\ rError' = "Too many redirects when fetching " \o rUrl
                 /\ UNCHANGED rRequests
     ELSE
       /\ rState' = "failed"
       /\ rError' = "Failed to fetch (" \o ToString(status) \o ")"
       /\ UNCHANGED <<rCurrent, rRedirects, rRequests>>
  /\ UNCHANGED rUrl

\* part_006 line 27: the request rejects with a network error
RedirectNetworkError ==
  /\ UNCHANGED redirectFrame
  /\ rState = "fetching"
  /\ rState' = "failed"
  /\ rError' = "fetch failed"
  /\ UNCHANGED <<rUrl, rCurrent, rRedirects, rRequests, rResponses>>

\* a request is answered or rejected
RedirectSettle ==
  \/ \E status \in RedirectStatusPool, next \in LocationHeaderPool :
       RedirectRespond(status, next)
  \/ RedirectNetworkError

RedirectNext ==
  \/ \E url \in RedirectUrlPool : RedirectCall(url)
  \/ RedirectSettle

RedirectIdle ==
  /\ rUrl = "" /\ rCurrent = "" /\ rRedirects = 0 /\ rState = "idle" /\ rError = ""
  /\ rRequests = <<>> /\ rResponses = <<>>

-----------------------------------------------------------------------------
(* Specifications                                                          *)

vars == <<routeVars, hybridVars, fetchVars, searchVars, cacheVars, dedupVars, validatorVars, catchVars, enrichVars, extractVars, keyVars, redirectVars>>

\* the custom-scrape route
Init == RouteInit /\ HybridInit /\ FetchInit /\ fMaxRetries = 0 /\ SearchInit /\ CacheInit /\ DedupIdle /\ ValidatorIdle /\ CatchIdle /\ EnrichIdle /\ ExtractIdle /\ KeyIdle /\ RedirectIdle
Next == RouteNext
Spec == Init /\ [][Next]_vars

\* the route with its timer: a timer that is set fires
FairSpec == Spec /\ WF_vars(TimeoutFire)

\* hybridContactExtraction on the process-wide cache
IdleRoute ==
  /\ body = "array" /\ websites = <<>> /\ businessType = "" /\ location = ""
  /\ pc = "done" /\ validationErrors = <<>> /\ limitedWebsites = <<>> /\ batchStart = 0
  /\ task = <<>> /\ businesses = <<>> /\ detailedErrors = <<>> /\ procResult = NoResponse
  /\ response = NoResponse /\ timerFired = TRUE /\ requests = MaxRequests /\ log = <<>>
  /\ prev = NoAnswer
  /\ cache = <<>> /\ now = 0
HybridSpecInit == IdleRoute /\ HybridInit /\ FetchInit /\ fMaxRetries = 0 /\ SearchInit /\ CacheInit /\ DedupIdle /\ ValidatorIdle /\ CatchIdle /\ EnrichIdle /\ ExtractIdle /\ KeyIdle /\ RedirectIdle
HybridSpec == HybridSpecInit /\ [][HybridNext]_vars

\* fetchWithEnhancedRetry
FetchSpecInit == IdleRoute /\ HybridInit /\ FetchInit /\ SearchInit /\ CacheInit /\ DedupIdle /\ ValidatorIdle /\ CatchIdle /\ EnrichIdle /\ ExtractIdle /\ KeyIdle /\ RedirectIdle
FetchSpec == FetchSpecInit /\ [][FetchNext]_vars

\* searchBusinesses on the process-wide cache, with the clock
SearchSpecInit == IdleRoute /\ HybridInit /\ FetchInit /\ fMaxRetries = 0 /\ SearchInit /\ CacheInit /\ DedupIdle /\ ValidatorIdle /\ CatchIdle /\ EnrichIdle /\ ExtractIdle /\ KeyIdle /\ RedirectIdle
SearchSpec == SearchSpecInit /\ [][SearchNext]_vars

\* CacheManager called in any order, with the clock
CacheSpecInit ==
  IdleRoute /\ HybridInit /\ FetchInit /\ fMaxRetries = 0 /\ SearchInit /\ CacheInit /\ DedupIdle /\ ValidatorIdle /\ CatchIdle /\ EnrichIdle /\ ExtractIdle /\ KeyIdle /\ RedirectIdle
CacheSpec == CacheSpecInit /\ [][CacheNext]_vars

\* the same, with a map that reaches MAX_CACHE_SIZE entries
CacheFullSpec == CacheSpecInit /\ [][CacheFullNext]_vars

\* removeDuplicates applied again to its own result
DedupSpecInit ==
  IdleRoute /\ HybridInit /\ FetchInit /\ fMaxRetries = 0 /\ SearchInit /\ CacheInit
  /\ DedupInit /\ ValidatorIdle /\ CatchIdle /\ EnrichIdle /\ ExtractIdle /\ KeyIdle /\ RedirectIdle
DedupSpec == DedupSpecInit /\ [][DedupNext]_vars

\* validateBusinessResult applied again to its own result
ValidatorSpecInit ==
  IdleRoute /\ HybridInit /\ FetchInit /\ fMaxRetries = 0 /\ SearchInit /\ CacheInit
  /\ DedupIdle /\ ValidatorInit /\ CatchIdle /\ EnrichIdle /\ ExtractIdle /\ KeyIdle /\ RedirectIdle
ValidatorSpec == ValidatorSpecInit /\ [][ValidatorNext]_vars

\* the route on lists of about maxWebsites valid URLs
CapSpecInit ==
  CapInit /\ HybridInit /\ FetchInit /\ fMaxRetries = 0 /\ SearchInit /\ CacheInit
  /\ DedupIdle /\ ValidatorIdle /\ CatchIdle /\ EnrichIdle /\ ExtractIdle /\ KeyIdle /\ RedirectIdle
CapSpec == CapSpecInit /\ [][CapNext]_vars

\* the enrichment endpoints
EnrichSpecInit ==
  IdleRoute /\ HybridInit /\ FetchInit /\ fMaxRetries = 0 /\ SearchInit /\ CacheInit
  /\ DedupIdle /\ ValidatorIdle /\ CatchIdle /\ EnrichInit /\ ExtractIdle /\ KeyIdle /\ RedirectIdle
EnrichSpec == EnrichSpecInit /\ [][EnrichNext]_vars

\* the categorisation of the failure of one URL
CatchSpecInit ==
  IdleRoute /\ HybridInit /\ FetchInit /\ fMaxRetries = 0 /\ SearchInit /\ CacheInit
  /\ DedupIdle /\ ValidatorIdle /\ CatchInit /\ EnrichIdle /\ ExtractIdle /\ KeyIdle /\ RedirectIdle
CatchSpec == CatchSpecInit /\ [][CatchNext]_vars

\* the two extractors on the process-wide cache, with the clock
ExtractSpecInit ==
  IdleRoute /\ HybridInit /\ FetchInit /\ fMaxRetries = 0 /\ SearchInit /\ CacheInit
  /\ DedupIdle /\ ValidatorIdle /\ CatchIdle /\ EnrichIdle /\ ExtractInit /\ KeyIdle /\ RedirectIdle
ExtractSpec == ExtractSpecInit /\ [][ExtractNext]_vars

\* the route serving the requests of different clients
KeySpecInit ==
  KeyInit /\ HybridInit /\ FetchInit /\ fMaxRetries = 0 /\ SearchInit /\ CacheInit
  /\ DedupIdle /\ ValidatorIdle /\ CatchIdle /\ EnrichIdle /\ ExtractIdle /\ RedirectIdle
KeySpec == KeySpecInit /\ [][KeyNext]_vars

\* fetchWithRedirects; every request is answered or rejected in the end
RedirectSpecInit ==
  IdleRoute /\ HybridInit /\ FetchInit /\ fMaxRetries = 0 /\ SearchInit /\ CacheInit
  /\ DedupIdle /\ ValidatorIdle /\ CatchIdle /\ EnrichIdle /\ ExtractIdle /\ KeyIdle /\ RedirectInit
FairRedirectSpec == RedirectSpecInit /\ [][RedirectNext]_vars /\ WF_vars(RedirectSettle)
-----------------------------------------------------------------------------
(* The custom-scrape route: properties                                     *)

Range(seq) == {seq[k] : k \in DOMAIN seq}

\* the batch an entry of limitedWebsites belongs to, counted from 0
BatchNo(k) == (k - 1) \div concurrencyLimit

TasksInFlight == {k \in DOMAIN task : task[k].st \in InFlight}

\* the number of non-blank entries of the request's list
NonBlank == Cardinality({i \in DOMAIN websites : cleanWebsite(websites[i]).kind # "blank"})

\* C1: at every moment at most 3 per-URL tasks of a request are in flight, and
\* no task of a batch has started while a task of an earlier batch is not
\* finished
C1_BoundedBatches ==
  /\ Cardinality(TasksInFlight) <= concurrencyLimit
  /\ \A j, k \in DOMAIN task :
       BatchNo(j) < BatchNo(k) /\ task[k].st # "pending" => task[j].st = "settled"

\* the second batch is running, after a first batch in which a URL failed and
\* another succeeded
C1_Witness ==
  /\ \E k \in TasksInFlight : BatchNo(k) = 1
  /\ \E j \in DOMAIN log : BatchNo(j) = 0 /\ log[j].error = 1
  /\ \E j \in DOMAIN log : BatchNo(j) = 0 /\ log[j].business = 1

\* C2: when the extraction of a URL has thrown, every URL of the request is
\* still processed to its one outcome and processRequest answers 200, with the
\* successes (deduplicated) and the list of per-URL errors; that answer is the
\* response unless the deadline came first
C2_FailureIsolated ==
  (pc = "done" /\ \E k \in DOMAIN log : log[k].error > 0) =>
    /\ \A k \in DOMAIN task : task[k].st = "settled" /\ log[k].business + log[k].error = 1
    /\ procResult.status = 200
    /\ procResult.businesses = removeDuplicates(businesses)
    /\ Len(businesses) = Cardinality({k \in DOMAIN log : log[k].business = 1})
    /\ procResult.detailedErrors = detailedErrors
    /\ Len(detailedErrors) =
         Len(validationErrors) + Cardinality({k \in DOMAIN log : log[k].error = 1})
    /\ Len(procResult.errors) = Len(detailedErrors)
    /\ response = procResult \/ (timerFired /\ response = timeoutRejection)

\* the first URL has thrown; a URL of the same batch and the URL of the second
\* batch have yielded records, and the answer is 200
C2_Witness ==
  /\ pc = "done"
  /\ response.status = 200
  /\ \E k, j, l \in DOMAIN log :
       /\ BatchNo(k) = 0 /\ log[k].error = 1
       /\ BatchNo(j) = 0 /\ log[j].business = 1
       /\ BatchNo(l) = 1 /\ log[l].business = 1

\* the answer of processRequest was computed by the batch loop, not read from
\* the cache
Processed200 == procResult.status = 200 /\ "detailedErrors" \in DOMAIN procResult

\* C3, as stated: in a 200 answer the records and the errors together count
\* every non-blank input URL exactly once
C3_AsStated ==
  procResult.status = 200 =>
    Len(procResult.businesses) + Len(procResult.errors) = NonBlank

\* C3, amended: in a 200 answer that is not served from the cache, a URL that
\* fails validation has exactly one error, of category validation, per
\* occurrence in the list, and no task; every task has pushed exactly one
\* record or one error; the errors of the answer are all of these errors, and
\* its records are the pushed records less those that removeDuplicates drops:
\* each pushed record is in the answer, or has the signature of, or is similar
\* to, a record of the answer
C3_AccountedBeforeDedup ==
  Processed200 =>
    /\ \A i \in DOMAIN websites :
         cleanWebsite(websites[i]).kind = "invalid" =>
           /\ Cardinality({k \in DOMAIN procResult.detailedErrors :
                             procResult.detailedErrors[k].url = websites[i]})
                = Cardinality({j \in DOMAIN websites : websites[j] = websites[i]})
           /\ \A k \in DOMAIN procResult.detailedErrors :
                procResult.detailedErrors[k].url = websites[i] =>
                  procResult.detailedErrors[k].category = "validation"
           /\ \A k \in DOMAIN limitedWebsites : limitedWebsites[k].original # websites[i]
    /\ \A k \in DOMAIN task : task[k].st = "settled" /\ log[k].business + log[k].error = 1
    /\ Len(businesses) + Len(procResult.detailedErrors) = NonBlank
    /\ Len(procResult.errors) = Len(procResult.detailedErrors)
    /\ Range(procResult.businesses) \subseteq Range(businesses)
    /\ \A b \in Range(businesses) :
         \/ b \in Range(procResult.businesses)
         \/ \E u \in Range(procResult.businesses) :
              \/ createBusinessSignature(u) = createBusinessSignature(b)
              \/ calculateSimilarityExceeds(b, u)

\* a 200 answer for a list with invalid entries, in which two records were
\* pushed and one of them was dropped as a duplicate
C3_Witness ==
  /\ Processed200
  /\ validationErrors # <<>>
  /\ Len(procResult.businesses) < Len(businesses)

\* C4: when the deadline fires before processRequest has settled, the response
\* is the top-level timeout failure, with no businesses; and a response, once
\* given, is never replaced nor changed by what the request does afterwards
C4_DeadlineAnswersOnce ==
  [][/\ (~timerFired /\ timerFired' /\ procResult = NoResponse) =>
          /\ response'.status = 500
          /\ includes(response'.error, "timeout")
          /\ response'.businesses = <<>>
     /\ (response # NoResponse /\ requests' = requests) => response' = response]_vars

\* the deadline fired during the second batch; the work went on and
\* processRequest settled with its 200 answer, which nobody receives
C4_Witness ==
  /\ response = timeoutRejection
  /\ procResult.status = 200
  /\ batchStart >= concurrencyLimit

\* C5: every request eventually receives a response
C5_EventuallyAnswered == (response = NoResponse) ~> (response # NoResponse)

\* the request was answered by the deadline while a fetch of it has not
\* returned
C5_Witness ==
  /\ response.status = 500
  /\ procResult = NoResponse
  /\ \E k \in DOMAIN task : task[k].st = "fetching"
\* the work on a repeat of a submission that the batch loop answered is over,
\* and the repeat came while the cached entry was fresh
FreshRepeat ==
  /\ pc = "done"
  /\ prev.result # NoResponse
  /\ now - prev.at <= CUSTOM_SCRAPE_TTL

\* C17, as stated: a repeat within 30 minutes is answered with the records, the
\* error list and the stats of the original answer
C17_AsStated ==
  FreshRepeat =>
    /\ procResult.status = 200
    /\ procResult.businesses = prev.result.businesses
    /\ procResult.errors = prev.result.errors
    /\ procResult.stats = prev.result.stats

\* C17, amended: a repeat within 30 minutes is answered from the cache with the
\* records of the original answer, an empty error list, and stats built from
\* the cached list: total the number of submitted URLs, successful the number
\* of cached records, failed 0 and no count per category
C17_CachedRecordsOnly ==
  FreshRepeat =>
    /\ procResult.status = 200
    /\ "detailedErrors" \notin DOMAIN procResult
    /\ procResult.businesses = prev.result.businesses
    /\ procResult.errors = <<>>
    /\ procResult.stats =
         [total |-> Len(websites), successful |-> Len(prev.result.businesses),
          failed |-> 0, errorsByCategory |-> <<>>]

\* a repeat exactly 30 minutes after an answer that carried errors was served
\* from the cache
C17_Witness ==
  /\ FreshRepeat
  /\ now - prev.at = CUSTOM_SCRAPE_TTL
  /\ prev.result.errors # <<>>
  /\ prev.result.businesses # <<>>
  /\ procResult.businesses = prev.result.businesses

\* C18: a list that is submitted again in another order, with the same
\* filters, has the cache key of the original submission, and while the cached
\* answer is fresh the repeat is served from the cache.
C18_OrderIndependentKey ==
  (requests > 1 /\ prev.result # NoResponse) =>
    /\ pc = "json" => customScrapeKey(websites, businessType, location) = prev.key
    /\ pc = "done" => procResult.status = 200 /\ "detailedErrors" \notin DOMAIN procResult

\* a list of several URLs came again out of order and was served from the cache
C18_Witness ==
  /\ requests > 1 /\ pc = "done"
  /\ prev.result # NoResponse /\ prev.permuted
  /\ Len(websites) > 1
  /\ customScrapeKey(websites, businessType, location) = prev.key
  /\ "detailedErrors" \notin DOMAIN procResult

-----------------------------------------------------------------------------
(* hybridContactExtraction: properties                                     *)

IsPrefix(s, t) == Len(s) <= Len(t) /\ s = SubSeq(t, 1, Len(s))

AiPath == <<"CacheCheck", "Fetch", "AIExtract", "Done">>
FallbackPath == <<"CacheCheck", "Fetch", "AIExtract", "TraditionalExtract", "Done">>

\* C6: the stages of a call are entered in the order of CacheCheck, Fetch,
\* AIExtract, Done or of CacheCheck, Fetch, AIExtract, TraditionalExtract,
\* Done: AIExtract only after the page was fetched, TraditionalExtract only
\* after the AI call failed, no stage twice; a call that ran an extraction to
\* its end has taken one of the two paths whole (a cache hit goes from
\* CacheCheck to Done)
C6_StageOrder ==
  /\ \/ hTrace = <<>>
     \/ IsPrefix(hTrace, AiPath)
     \/ IsPrefix(hTrace, FallbackPath)
     \/ hTrace = <<"CacheCheck", "Done">> /\ hResult.method = "hybrid"
  /\ "AIExtract" \in Range(hTrace) => hFetchOk
  /\ "TraditionalExtract" \in Range(hTrace) => hAi = "failed"
  /\ \A i, j \in DOMAIN hTrace : i # j => hTrace[i] # hTrace[j]
  /\ hStage = "Done" /\ hResult.method = "ai" => hTrace = AiPath
  /\ hStage = "Done" /\ hResult.method = "traditional" => hTrace = FallbackPath

\* the second call of a behaviour has gone through the fallback to Done
C6_Witness == hCalls = 2 /\ hTrace = FallbackPath /\ hStage = "Done"

\* C7: a call whose page was fetched and whose AI call failed does not fail: it
\* returns what extractEmailsEnhanced and extractPhonesEnhanced returned,
\* tagged traditional; a result tagged ai is returned only after the AI call
\* succeeded
C7_FallbackOnAiFailure ==
  /\ hFetchOk /\ hAi = "failed" => hStage \in {"TraditionalExtract", "Done"}
  /\ hFetchOk /\ hAi = "failed" /\ hStage = "Done" =>
       /\ hResult.method = "traditional"
       /\ hResult.emails = hEmails
       /\ hResult.phones \in PhoneListPool
  /\ hResult.method = "ai" => hAi = "ok"
  /\ hResult.method = "traditional" => hAi = "failed"

\* the AI call failed and the call returned the emails the fallback found
C7_Witness ==
  /\ hAi = "failed"
  /\ hStage = "Done"
  /\ hResult.method = "traditional"
  /\ hResult.emails # <<>>

\* C8, as stated: every write of a call to the contacts cache stores at least
\* one email or one phone, and a call that has returned an empty extraction
\* has written nothing
C8_AsStated ==
  /\ \A i \in DOMAIN hWrites : nonEmptyContacts(hWrites[i])
  /\ (hStage = "Done" /\ hResult.method \in {"ai", "traditional"} /\ ~nonEmptyContacts(hResult))
       => hWrites = <<>>

-----------------------------------------------------------------------------
(* fetchWithEnhancedRetry: properties                                      *)

Retried == {0, 400, 500, 503}

\* C9, as stated: the call fails on a 429 or a 403 only when no attempt remains
C9_AsStated ==
  (fState = "failed" /\ fOutcomes # <<>> /\ fOutcomes[Len(fOutcomes)] \in {403, 429})
    => Len(fOutcomes) = fMaxRetries

\* C9, amended: a 429 or a 403 ends the call at once, with the access-denied
\* error, whatever attempts remain: no delay is taken and no request issued
\* after it. It is a 5xx, another status that is not ok, or a network error
\* that is retried while attempts remain, after min(1000 * 2^attempt, 5000) ms;
\* the call returns exactly when an attempt is answered 200
C9_AccessDeniedNotRetried ==
  /\ \A i \in DOMAIN fOutcomes :
       fOutcomes[i] \in {403, 429} =>
         /\ i = Len(fOutcomes)
         /\ fState = "failed"
         /\ includes(fError, "Access denied")
         /\ fIssued = i
         /\ Len(fDelays) = i - 1
  /\ \A i \in DOMAIN fOutcomes :
       fOutcomes[i] \in Retried /\ i < fMaxRetries =>
         /\ Len(fDelays) >= i
         /\ fDelays[i] = (IF 1000 * 2^(i - 1) < 5000 THEN 1000 * 2^(i - 1) ELSE 5000)
         /\ fState = "backoff" \/ fIssued > i
  /\ fState = "returned" <=> (fOutcomes # <<>> /\ fOutcomes[Len(fOutcomes)] = 200)

\* with three attempts allowed, a 503 was retried after 1000 ms and the 429
\* that answered the retry ended the call
C9_Witness ==
  /\ fMaxRetries = 3
  /\ fOutcomes = <<503, 429>>
  /\ fDelays = <<1000>>
  /\ fState = "failed"

\* C10: a 404 ends the call: it is the last response, the call has failed
\* with the page-not-found error, and no request is issued and no delay taken
\* after it, whatever maxRetries is
C10_NotFoundNotRetried ==
  \A i \in DOMAIN fOutcomes :
    fOutcomes[i] = 404 =>
      /\ i = Len(fOutcomes)
      /\ fState = "failed"
      /\ includes(fError, "404")
      /\ fIssued = i
      /\ Len(fDelays) = i - 1

\* with three attempts allowed, the first response was a 404 and the call has
\* failed after one request and no delay
C10_Witness ==
  /\ fMaxRetries = 3
  /\ fOutcomes = <<404>>
  /\ fState = "failed"
  /\ fIssued = 1
  /\ fDelays = <<>>
\* C11: an attempt aborted by its timer ends the call: it is the last
\* attempt, the call has failed with the timeout error, and no request is
\* issued and no delay taken after it, whatever attempts remain
C11_AbortNotRetried ==
  \A i \in DOMAIN fOutcomes :
    fOutcomes[i] = -1 =>
      /\ i = Len(fOutcomes)
      /\ fState = "failed"
      /\ fError = "Request timeout after 30 seconds"
      /\ includes(fError, "timeout")
      /\ fIssued = i
      /\ Len(fDelays) = i - 1

\* with three attempts allowed, the second attempt, made after a 500 and its
\* delay, was aborted and the call has failed with an attempt to spare
C11_Witness ==
  /\ fMaxRetries = 3
  /\ fOutcomes = <<500, -1>>
  /\ fState = "failed"
  /\ fIssued = 2
  /\ fDelays = <<1000>>
-----------------------------------------------------------------------------
(* searchBusinesses: properties                                            *)

Only429 == sOutcomes # <<>> /\ \A i \in DOMAIN sOutcomes : includes(sOutcomes[i], "429")

\* C12, as stated: a call makes at most 3 attempts, and one that has failed on
\* 429 responses alone has slept 2 s, 5 s and 10 s
C12_AsStated ==
  /\ Len(sOutcomes) <= 3
  /\ (sState = "failed" /\ Only429) => sDelays = <<2000, 5000, 10000>>

\* C13, as stated: the error a failed call throws is the error of its last
\* attempt
C13_AsStated ==
  (sState = "failed" /\ sLastError # "") => sResult.error = sLastError

\* C13, amended: when every attempt has failed, lastError is the error of the
\* last attempt, and what the caller receives is, whatever that error was, the
\* error "Failed to scrape business information"
C13_GenericError ==
  sState = "failed" =>
    /\ sResult.method = "thrown"
    /\ sResult.error = "Failed to scrape business information"
    /\ sOutcomes[Len(sOutcomes)] # "ok" =>
         /\ Len(sOutcomes) = maxAttempts
         /\ sLastError = sOutcomes[Len(sOutcomes)]

\* three attempts were answered 429 and the call has failed
C13_Witness ==
  /\ sState = "failed"
  /\ Len(sOutcomes) = 3
  /\ Only429
  /\ sLastError = "Failed to fetch (429)"

\* C19: a call writes to the cache once, at its end, after an attempt has
\* succeeded and the page was parsed; a call that finds a fresh entry under its
\* (query, page) returns that entry, the response of that page, with no fetch;
\* a call that has failed has written nothing: the cache holds what it held
\* when the call began, less the expired entry of the call's own key
C19_CacheOnSuccessOnly ==
  /\ sWrites <= 1
  /\ sWrites = 1 =>
       /\ sState = "returned"
       /\ sOutcomes # <<>> /\ sOutcomes[Len(sOutcomes)] = "ok"
  /\ sState = "returned" =>
       /\ sResult.value.pagination.currentPage = sPage
       /\ sOutcomes = <<>> <=> sWrites = 0
       /\ sOutcomes = <<>> =>
            /\ searchKey(sQuery, "", sPage) \in DOMAIN sCache0
            /\ sResult.value = sCache0[searchKey(sQuery, "", sPage)].data
            /\ cache = sCache0
  /\ sState \in {"fetching", "sleeping", "parsing", "failed"} =>
       /\ sWrites = 0
       /\ DOMAIN cache \subseteq DOMAIN sCache0
       /\ \A k \in DOMAIN cache : cache[k] = sCache0[k]
       /\ \A k \in DOMAIN sCache0 \ DOMAIN cache :
            /\ k = searchKey(sQuery, "", sPage)
            /\ now - sCache0[k].timestamp > sCache0[k].ttl

\* the second call, made 30 minutes after the first had cached its response,
\* has returned that response without a fetch
C19_Witness ==
  /\ sCalls = 2
  /\ sState = "returned"
  /\ sOutcomes = <<>>
  /\ now = SEARCH_TTL
  /\ sResult.value.businesses # <<>>

-----------------------------------------------------------------------------
(* CacheManager: properties                                                *)

\* a step that is a call of one of the given methods (the clock stands still
\* during a call, and every call records itself in cOp)
CallOf(ops) == now' = now /\ cOp'.op \in ops

\* C14: a get of a key that was set, and neither set again nor cleared since,
\* returns the stored value while now - timestamp <= ttl; once now - timestamp
\* > ttl it returns a miss and the entry is gone from the map.
C14_GetAfterSet ==
  [][CallOf({"get"}) =>
       LET w == cLast[cOp'.key]
       IN w # NoWrite =>
            IF now - w.timestamp <= w.ttl
            THEN cOp'.hit /\ cOp'.data = w.data
            ELSE ~cOp'.hit /\ cOp'.key \notin DOMAIN cache']_vars

\* a get found the entry of its key expired, and removed it
C14_Witness ==
  /\ cOp.op = "get" /\ ~cOp.hit
  /\ cLast[cOp.key] # NoWrite
  /\ now - cLast[cOp.key].timestamp > cLast[cOp.key].ttl
  /\ cOp.key \notin DOMAIN cache

\* C15: set, get, has and cleanup never remove an unexpired entry; a set
\* always stores its entry; and a set on a map of MAX_CACHE_SIZE entries or
\* more leaves exactly the unexpired entries and its own, so that the map
\* exceeds the cap when every entry is fresh.
C15_OnlyExpiredEvicted ==
  [][/\ CallOf({"set", "get", "has", "cleanup"}) =>
          \A k \in DOMAIN cache :
             (~Expired(cache[k], now) /\ ~(cOp'.op = "set" /\ k = cOp'.key)) =>
                k \in DOMAIN cache' /\ cache'[k] = cache[k]
     /\ CallOf({"set"}) =>
          /\ cOp'.key \in DOMAIN cache'
          /\ cache'[cOp'.key].data = cOp'.data
          /\ cache'[cOp'.key].timestamp = now
     /\ (CallOf({"set"}) /\ Cardinality(DOMAIN cache) >= MAX_CACHE_SIZE) =>
          DOMAIN cache' =
            {k \in DOMAIN cache : ~Expired(cache[k], now)} \cup {cOp'.key}
     /\ CallOf({"cleanup"}) =>
          DOMAIN cache' = {k \in DOMAIN cache : ~Expired(cache[k], now)}]_vars

\* a set found the map at the cap with nothing to evict, and the map grew
C15_Witness ==
  /\ cOp.op = "set" /\ cOp.size >= MAX_CACHE_SIZE
  /\ Cardinality(DOMAIN cache) > MAX_CACHE_SIZE
  /\ cOp.key \in DOMAIN cache

\* C16: whatever the order of the callers' reads and writes, a get returns a
\* miss or the data of the most recent set of its key.
C16_LastWriteWins ==
  (cOp.op = "get" /\ cOp.hit) =>
     /\ cLast[cOp.key] # NoWrite
     /\ cOp.data = cLast[cOp.key].data

\* a get returned the data of a set that replaced other data of the key
C16_Witness ==
  /\ cOp.op = "get" /\ cOp.hit
  /\ cLast[cOp.key].over
  /\ cOp.data = cLast[cOp.key].data

-----------------------------------------------------------------------------
(* DuplicateDetector: properties                                           *)

\* C20: a second pass of removeDuplicates over the result of a first pass
\* returns that result unchanged.
C20_Idempotent == dPasses >= 2 => dResult = dOnce

\* the first pass dropped a record of the list, and a second pass was made
C20_Witness ==
  /\ dPasses = 2
  /\ Len(dOnce) < Len(dInput)
  /\ Len(dOnce) > 1
  /\ dResult = dOnce

\* the places of the input that the records of the output come from, taking
\* for each record the first place after the place of the record before it
RECURSIVE PlacesFrom(_, _, _)
PlacesFrom(output, input, from) ==
  IF output = <<>> THEN <<>>
  ELSE LET at == {i \in from..Len(input) : input[i] = Head(output)}
       IN IF at = {} THEN <<0>>
          ELSE <<SetMin(at)>> \o PlacesFrom(Tail(output), input, SetMin(at) + 1)

Places == PlacesFrom(dOnce, dInput, 1)

\* the output is the input with some records left out
IsSubsequence == Len(Places) = Len(dOnce) /\ \A k \in DOMAIN Places : Places[k] > 0

FirstWith(signature) ==
  dInput[SetMin({i \in DOMAIN dInput : createBusinessSignature(dInput[i]) = signature})]

\* C21, as stated: the output is a subsequence of the input, and each record
\* kept is the first record of the input that carries its signature
C21_AsStated ==
  dPasses >= 1 =>
    /\ IsSubsequence
    /\ \A k \in DOMAIN dOnce : dOnce[k] = FirstWith(createBusinessSignature(dOnce[k]))

\* C21, amended: the output is a subsequence of the input that begins with the
\* first record of the input, no two of its records share a signature, and an
\* earlier record of the input that carries the signature of a kept record was
\* dropped as similar to a record kept before it
C21_FirstNotSimilar ==
  dPasses >= 1 =>
    /\ IsSubsequence
    /\ dInput # <<>> => dOnce # <<>> /\ dOnce[1] = dInput[1]
    /\ \A k, j \in DOMAIN dOnce :
         k # j => createBusinessSignature(dOnce[k]) # createBusinessSignature(dOnce[j])
    /\ \A k \in DOMAIN dOnce : \A i \in 1..(Places[k] - 1) :
         createBusinessSignature(dInput[i]) = createBusinessSignature(dOnce[k]) =>
           \E j \in 1..(k - 1) :
              Places[j] < i /\ calculateSimilarityExceeds(dInput[i], dOnce[j])

\* a record was kept although an earlier record with its signature was dropped
C21_Witness ==
  /\ dPasses >= 1
  /\ IsSubsequence
  /\ \E k \in DOMAIN dOnce : dOnce[k] # FirstWith(createBusinessSignature(dOnce[k]))

\* two records with the same normalized name, the same digits in the phone and
\* the same website domain
SameIdentity(business1, business2) ==
  /\ normalizeBusinessName(business1.name) = normalizeBusinessName(business2.name)
  /\ digitsOnly(business1.phone) = digitsOnly(business2.phone)
  /\ extractDomain(business1.website) = extractDomain(business2.website)

\* a list of two such records has been deduplicated
IdenticalPair == dPasses >= 1 /\ Len(dInput) = 2 /\ SameIdentity(dInput[1], dInput[2])

\* C22, as stated: such a pair scores at least 0.85 and collapses to one record
C22_AsStated ==
  IdenticalPair =>
    /\ LET similarity == calculateSimilarity(dInput[2], dInput[1])
       IN similarity.total >= 850 * similarity.scale
    /\ Len(dOnce) = 1

\* C22, amended: such a pair collapses to its first record; its score is at
\* least 0.75 when name, phone and website are not empty, and reaches 0.85 only
\* with a contribution of the address or the email
C22_CollapsesBySignature ==
  IdenticalPair =>
    LET similarity == calculateSimilarity(dInput[2], dInput[1])
    IN /\ dOnce = <<dInput[1]>>
       /\ createBusinessSignature(dInput[1]) = createBusinessSignature(dInput[2])
       /\ (/\ normalizeBusinessName(dInput[1].name) # ""
           /\ digitsOnly(dInput[1].phone) # ""
           /\ extractDomain(dInput[1].website) \notin {NULL, ""}) =>
             similarity.total >= 750 * similarity.scale
       /\ similarity.total >= 850 * similarity.scale => similarity.extra > 0

\* two different records of one identity that score 0.75 became one record
C22_Witness ==
  /\ IdenticalPair
  /\ dInput[1] # dInput[2]
  /\ LET similarity == calculateSimilarity(dInput[2], dInput[1])
     IN similarity.total = 750 * similarity.scale
  /\ dOnce = <<dInput[1]>>

\* a website without its scheme, a leading "www." and a trailing slash
bareSite(website) ==
  LET rest == stripSchemeAndWww(toLowerCase(website))
  IN IF endsWith(rest, "/") THEN substring(rest, 0, Len(rest) - 1) ELSE rest

\* two records with names that normalize to one string, the same digits in the
\* phone and websites that differ by a leading "www." or a trailing slash only
SameButForWww(business1, business2) ==
  /\ normalizeBusinessName(business1.name) = normalizeBusinessName(business2.name)
  /\ digitsOnly(business1.phone) = digitsOnly(business2.phone)
  /\ business1.website # "" /\ business2.website # ""
  /\ bareSite(business1.website) = bareSite(business2.website)

\* C23: a list of two such records is reduced to one record by removeDuplicates
C23_AsStated ==
  (dPasses >= 1 /\ Len(dInput) = 2 /\ SameButForWww(dInput[1], dInput[2])) =>
     Len(dOnce) = 1

-----------------------------------------------------------------------------
(* BusinessDataValidator: properties                                       *)

\* the fields of a raw record that their validators reject
RejectedFields(raw) ==
  {f \in {"name"} : validateBusinessName(raw.name) = NULL}
    \cup {f \in {"phone"} : validatePhone(raw.phone) = NULL}
    \cup {f \in {"email"} : ~validateEmail(raw.email)}
    \cup {f \in {"website"} : validateWebsite(raw.website) = NULL}
    \cup {f \in {"address"} : validateAddress(raw.address) = NULL}

\* C24 as stated: every field whose validator rejects the raw value is the
\* empty string in the validated record.
C24_AsStated == vPasses >= 1 => \A f \in RejectedFields(vRaw) : vOnce[f] = ""

\* C24: validation yields a record for every raw record; a rejected phone,
\* email, website or address is the empty string in it, and a rejected name
\* is the raw name, unchanged.
C24_RejectedFieldsDegrade ==
  vPasses >= 1 =>
    /\ DOMAIN vOnce = DOMAIN vRaw
    /\ \A f \in RejectedFields(vRaw) \ {"name"} : vOnce[f] = ""
    /\ "name" \in RejectedFields(vRaw) => vOnce.name = vRaw.name

C24_Witness ==
  /\ vPasses = 1
  /\ RejectedFields(vRaw) = {"name", "phone", "email", "website", "address"}
  /\ vRaw.name = "X" /\ vRaw.phone = "012-555-0134" /\ vRaw.website = "192.168.1.1"
  /\ vOnce.name = "X" /\ vOnce.phone = "" /\ vOnce.website = ""


AllDigits(s) == \A i \in 1..Len(s) : IsDigit(Char(s, i))

\* "(AAA) EEE-LLLL"
IsNationalShape(p) ==
  /\ Len(p) = 14
  /\ Char(p, 1) = "(" /\ SubSeq(p, 5, 6) = ") " /\ Char(p, 10) = "-"
  /\ AllDigits(SubSeq(p, 2, 4)) /\ AllDigits(SubSeq(p, 7, 9)) /\ AllDigits(SubSeq(p, 11, 14))

IsCanonicalPhone(p) ==
  \/ IsNationalShape(p)
  \/ startsWith(p, "+1 ") /\ IsNationalShape(dropPrefix(p, "+1 "))
  \/ startsWith(p, "+") /\ Len(p) \in 8..16 /\ AllDigits(dropPrefix(p, "+"))

IsPublicHttpsUrl(w) ==
  /\ startsWith(w, "https://")
  /\ LET hostname == URLHostname(dropPrefix(w, "https://")) IN
       /\ includes(hostname, ".")
       /\ hostname # "localhost"
       /\ ~IsIPv4Literal(hostname)

\* C25: in every validated record the phone is "" or of a canonical shape,
\* the email is "" or passes validateEmail, and the website is "" or an
\* https:// URL whose hostname has a dot and is neither localhost nor an
\* IPv4 literal.
C25_AsStated ==
  vPasses >= 1 =>
    /\ vOnce.phone = "" \/ IsCanonicalPhone(vOnce.phone)
    /\ vOnce.email = "" \/ validateEmail(vOnce.email)
    /\ vOnce.website = "" \/ IsPublicHttpsUrl(vOnce.website)

\* the same without the website
C25_PhoneAndEmailOnly ==
  vPasses >= 1 =>
    /\ vOnce.phone = "" \/ IsCanonicalPhone(vOnce.phone)
    /\ vOnce.email = "" \/ validateEmail(vOnce.email)

\* C26: a phone that validatePhone accepts is returned unchanged when the
\* validated value is validated again.
C26_PhoneIdempotent ==
  (vPasses = 2 /\ validatePhone(vRaw.phone) # NULL) =>
     /\ vOnce.phone = validatePhone(vRaw.phone)
     /\ vResult.phone = vOnce.phone

C26_Witness ==
  /\ vPasses = 2
  /\ vRaw.phone = "512.555.0134 ext"
  /\ vOnce.phone = "(512) 555-0134"
  /\ vResult.phone = "(512) 555-0134"

\* the forms of one site: optional scheme, optional "www.", any letter case
ExampleForms ==
  {"example.com", "www.example.com", "https://example.com/", "HTTP://WWW.Example.COM"}

\* C27: "example.com", "www.example.com", "https://example.com/" and their
\* upper-case spellings all validate to "https://example.com/".
C27_SameCanonicalWebsite ==
  (vPasses >= 1 /\ vRaw.website \in ExampleForms) => vOnce.website = "https://example.com/"

C27_Witness ==
  /\ vPasses = 1
  /\ vRaw.website = "HTTP://WWW.Example.COM"
  /\ vOnce.website = "https://example.com/"

-----------------------------------------------------------------------------
(* Error categorisation: properties                                        *)

\* the category each kind of failure is meant to get
categoryOfFailure(failure) ==
  CASE failure = "timeout" -> "timeout"
    [] failure \in {"status403", "status429", "status404", "status500", "status503", "quota"}
         -> "network"
    [] failure = "notBusiness" -> "content"
    [] failure = "invalidUrl" -> "validation"
    [] OTHER -> "unknown"

\* C28: the category recorded for a failed URL is the one of its kind of
\* failure, whatever the text of the URL.
C28_AsStated == eEntry # NoEntry => eEntry.category = categoryOfFailure(eFailure)

\* the same for URLs without digits and without the words "timeout" and "quota"
C28_PlainUrlsOnly ==
  (/\ eEntry # NoEntry
   /\ digitsOnly(eUrl) = "" /\ ~includes(eUrl, "timeout") /\ ~includes(eUrl, "quota"))
    => eEntry.category = categoryOfFailure(eFailure)

-----------------------------------------------------------------------------
(* The cap of maxWebsites: properties                                      *)

\* the validated URLs beyond the cap, in the order in which the route holds them
BeyondCap ==
  LET processed == processedOf(websites)
  IN {processed[k] : k \in (maxWebsites + 1)..Len(processed)}

\* C29: at most 50 validated URLs are given a task and have an outcome; a
\* validated URL beyond the 50th is never started, settles no task and, when
\* the request is done, has no entry in the error list and no record among
\* the businesses.
C29_CapOfFifty ==
  /\ Len(task) <= maxWebsites
  /\ Len(businesses) + Len(detailedErrors) - Len(validationErrors) <= maxWebsites
  /\ \A k \in DOMAIN log : k > maxWebsites => log[k] = [business |-> 0, error |-> 0]
  /\ pc = "done" =>
       \A site \in BeyondCap :
         /\ \A e \in Range(detailedErrors) : e.url # site.original
         /\ \A b \in Range(businesses) : b.website # validateWebsite(site.cleaned)

C29_Witness ==
  /\ pc = "done"
  /\ Len(processedOf(websites)) = maxWebsites + MaxOverCap
  /\ procResult.status = 200
  /\ Len(businesses) + Len(detailedErrors) >= maxWebsites
  /\ log[maxWebsites] # [business |-> 0, error |-> 0]
  /\ BeyondCap # {}

-----------------------------------------------------------------------------
(* The enrichment endpoints: properties                                    *)

RecordFields == {"name", "phone", "email", "website", "address", "category"}

\* the records the endpoint is to leave alone
LeftAlone(k) == nInput[k][nField] # "" \/ nInput[k].website = ""

\* C30: a record that already has the field, or has no website, is never
\* changed; a processed record changes in that field only, and only when its
\* extraction found a value; a failed or empty extraction leaves its record
\* unchanged, and when the answer is sent every record that needed an
\* extraction has had one, whatever happened to the others. The answer holds
\* records of the enriched list only.
C30_OnlyTheMissingField ==
  /\ \A k \in DOMAIN nUpdated :
       /\ LeftAlone(k) => nUpdated[k] = nInput[k] /\ nOutcome[k] = "none"
       /\ \A f \in RecordFields \ {nField} : nUpdated[k][f] = nInput[k][f]
       /\ nOutcome[k] # "found" => nUpdated[k] = nInput[k]
       /\ nOutcome[k] = "found" => nUpdated[k][nField] = Found(nField)
  /\ (nResponse.status = 200 /\ nInput # <<>>) =>
       /\ \A k \in DOMAIN nInput : ~LeftAlone(k) => nOutcome[k] # "none"
       /\ Range(nResponse.businesses) \subseteq Range(nUpdated)

C30_Witness ==
  /\ nResponse.status = 200
  /\ Len(nInput) = MaxEnrichRecords
  /\ \E i, j, k, l \in DOMAIN nInput :
       /\ nOutcome[i] = "failed" /\ nUpdated[i] = nInput[i]
       /\ nOutcome[j] = "found" /\ j > i /\ nUpdated[j] # nInput[j]
       /\ nInput[k][nField] # "" /\ nUpdated[k] = nInput[k]
       /\ nInput[l].website = "" /\ nUpdated[l] = nInput[l]

-----------------------------------------------------------------------------
(* The extractors on the shared contacts cache: properties                 *)

\* C31: every non-null phone returned by extractPhoneFromWebsite is a canonical
\* value accepted by validatePhone, and every non-null email returned by
\* extractEmailFromWebsite passes validateEmail, also when it comes from the
\* contacts cache (as stated)
C31_AsStated ==
  xStage = "Returned" /\ xReturn # NULL =>
    IF xFn = "phone" THEN validatePhone(xReturn) = xReturn ELSE validateEmail(xReturn)

\* C34: while a contacts entry is fresh, no extraction call replaces it with an
\* entry that drops contacts: a non-empty email list is not overwritten by an
\* empty one, nor a non-empty phone list by an empty one (as stated)
C34_AsStated ==
  [][\A key \in DOMAIN cache :
       ~Expired(cache[key], now) /\ key \in DOMAIN cache' =>
         /\ Len(cache[key].data.emails) > 0 => Len(cache'[key].data.emails) > 0
         /\ Len(cache[key].data.phones) > 0 => Len(cache'[key].data.phones) > 0]_vars

-----------------------------------------------------------------------------
(* The custom-scrape route and its cache key: properties                   *)

\* C32: computing the cache key leaves the list of the request unchanged, so the
\* URLs are validated, capped and batched in the order of submission (as
\* stated)
C32_AsStated ==
  [][ProcessRequest =>
       /\ websites' = websites
       /\ pc' = "batch" => limitedWebsites' = limitWebsites(processedOf(websites))]_vars

\* the sum of the counts of a table of counts
RECURSIVE SumOf(_)
SumOf(counts) ==
  IF DOMAIN counts = {} THEN 0
  ELSE LET c == CHOOSE c \in DOMAIN counts : TRUE
       IN counts[c] + SumOf([d \in DOMAIN counts \ {c} |-> counts[d]])

\* C35, as stated: in a 200 answer computed by the batch loop, total is
\* successful plus failed, successful is the number of businesses returned,
\* and failed is the number of detailed errors and the sum of the counts per
\* category
C35_AsStated ==
  Processed200 =>
    /\ procResult.stats.total = procResult.stats.successful + procResult.stats.failed
    /\ procResult.stats.successful = Len(procResult.businesses)
    /\ procResult.stats.failed = Len(procResult.detailedErrors)
    /\ procResult.stats.failed = SumOf(procResult.stats.errorsByCategory)

\* C35, amended: in such an answer total is the number of URLs that passed
\* validation, which is the number of records pushed before deduplication plus
\* the number of detailed errors that do not come from the validation loop;
\* successful is the number of businesses returned, failed the number of
\* detailed errors, validation errors included, and the sum of the counts per
\* category
C35_StatsCount ==
  Processed200 =>
    /\ procResult.stats.total = Len(limitedWebsites)
    /\ procResult.stats.total
         = Len(businesses) + Len(procResult.detailedErrors) - Len(validationErrors)
    /\ procResult.stats.successful = Len(procResult.businesses)
    /\ procResult.stats.failed = Len(procResult.detailedErrors)
    /\ procResult.stats.failed = SumOf(procResult.stats.errorsByCategory)

\* a 200 answer of the batch loop with a validation error, an error of another
\* category, and a record dropped as a duplicate
C35_Witness ==
  /\ Processed200
  /\ Len(validationErrors) > 0
  /\ Cardinality(DOMAIN procResult.stats.errorsByCategory) > 1
  /\ procResult.stats.successful < Len(businesses)
  /\ procResult.stats.total # procResult.stats.successful + procResult.stats.failed

\* the answer of the running request was served from the result cache
ServedFromCache ==
  pc = "done" /\ procResult.status = 200 /\ "detailedErrors" \notin DOMAIN procResult

\* C33: a cache hit returns results that were computed for the same set of
\* URLs and the same businessType and location (as stated)
C33_AsStated ==
  ServedFromCache =>
    LET key == customScrapeKey(websites, businessType, location)
    IN /\ key \in DOMAIN qFrom
       /\ qFrom[key].urls = {websites[i] : i \in DOMAIN websites}
       /\ qFrom[key].businessType = businessType
       /\ qFrom[key].location = location

-----------------------------------------------------------------------------
(* searchBusinesses: pagination                                            *)

\* C36, as stated: every response returned has currentPage <= totalPages,
\* hasPreviousPage exactly when currentPage > 1, and hasNextPage only when
\* currentPage < totalPages
C36_AsStated ==
  sResult.method = "returned" =>
    LET p == sResult.value.pagination
    IN /\ p.currentPage <= p.totalPages
       /\ p.hasPreviousPage <=> p.currentPage > 1
       /\ p.hasNextPage => p.currentPage < p.totalPages

\* C36, amended: every response returned has hasPreviousPage exactly when
\* currentPage > 1; when no result count above 0 was parsed it also has
\* currentPage <= totalPages, and hasNextPage only when currentPage < totalPages
C36_ConsistentWithoutCount ==
  sResult.method = "returned" =>
    LET p == sResult.value.pagination
    IN /\ p.hasPreviousPage <=> p.currentPage > 1
       /\ p.totalResults = 0 =>
            /\ p.currentPage <= p.totalPages
            /\ p.hasNextPage => p.currentPage < p.totalPages

\* page 2 of a search is returned, without a result count and with a next link
C36_Witness ==
  /\ sResult.method = "returned"
  /\ sResult.value.pagination.currentPage = 2
  /\ sResult.value.pagination.hasPreviousPage
  /\ sResult.value.pagination.totalResults = 0
  /\ sResult.value.pagination.hasNextPage
  /\ sResult.value.pagination.totalPages = 3

\* the least number of pages of 10 that hold n results
PagesFor(n) == CHOOSE pages \in 0..n : (pages - 1) * 10 < n /\ n <= pages * 10

\* C37: totalPages is ceil(totalResults / 10) when a result count above 0 was
\* parsed, and otherwise currentPage + 1 with a next page and currentPage
\* without; the offset of the fetch is (page - 1) * 10
C37_TotalPagesAndOffset ==
  /\ sResult.method = "returned" =>
       LET p == sResult.value.pagination
       IN p.totalPages = IF p.totalResults > 0 THEN PagesFor(p.totalResults)
                         ELSE IF p.hasNextPage THEN p.currentPage + 1
                         ELSE p.currentPage
  /\ sState \in {"fetching", "sleeping", "parsing"} => sStart # -1
  /\ sStart # -1 => sStart = (sPage - 1) * 10

\* page 2 was fetched at offset 10 and returned with a count of 25 results,
\* hence 3 pages
C37_Witness ==
  /\ sResult.method = "returned"
  /\ sPage = 2
  /\ sStart = 10
  /\ sResult.value.pagination.totalResults = 25
  /\ sResult.value.pagination.totalPages = 3

-----------------------------------------------------------------------------
(* fetchWithEnhancedRetry against a failing server                         *)

\* every attempt so far was answered with a status of 500 or more
AllServerErrors == \A i \in DOMAIN fOutcomes : fOutcomes[i] >= 500

\* C38: never more than maxRetries requests are issued; against a server that
\* answers every attempt with a status >= 500 the delay after failed attempt k
\* (from 0) is min(1000 * 2^k, 5000) ms, and the call fails after exactly
\* maxRetries requests, with no delay after the last one and with the server
\* error of the last response
C38_ServerErrorsExhaustAttempts ==
  /\ fIssued <= fMaxRetries
  /\ AllServerErrors =>
       /\ \A k \in DOMAIN fDelays :
            fDelays[k] = IF 1000 * Pow2(k - 1) < 5000 THEN 1000 * Pow2(k - 1) ELSE 5000
       /\ fState = "failed" =>
            /\ fIssued = fMaxRetries
            /\ Len(fOutcomes) = fMaxRetries
            /\ Len(fDelays) = IF fMaxRetries = 0 THEN 0 ELSE fMaxRetries - 1
            /\ fOutcomes # <<>> =>
                 fError = "Server error (" \o ToString(fOutcomes[Len(fOutcomes)])
                          \o "): Website may be temporarily unavailable"

\* five attempts were answered with server errors, the last with 503; the call
\* has failed after the delays 1000, 2000, 4000 and 5000
C38_Witness ==
  /\ fState = "failed"
  /\ fMaxRetries = 5
  /\ fIssued = 5
  /\ AllServerErrors
  /\ fOutcomes[5] = 503
  /\ fDelays = <<1000, 2000, 4000, 5000>>

\* what every state of a call of fetchWithRedirects satisfies
RedirectsBounded ==
  /\ Len(rRequests) <= maxRedirects + 1
  /\ rState # "idle" => Len(rRequests) - 1 <= maxRedirects
  /\ \A i \in 1..Len(rResponses) :
       LET res == rResponses[i]
           last == i = Len(rResponses) /\ Len(rRequests) = i
       IN /\ res.status >= 200 /\ res.status < 300 =>
               last /\ rState = "returned" /\ rError = ""
          /\ res.status \in {301, 302, 303, 307, 308} /\ res.location = NULL =>
               /\ last /\ rState = "failed"
               /\ rError = "Redirect (" \o ToString(res.status) \o ") without Location header"
          /\ ~(res.status >= 200 /\ res.status < 300)
               /\ res.status \notin {301, 302, 303, 307, 308} =>
               /\ last /\ rState = "failed"
               /\ rError = "Failed to fetch (" \o ToString(res.status) \o ")"
  /\ rError = "Too many redirects when fetching " \o rUrl =>
       /\ rState = "failed"
       /\ Len(rRequests) - 1 = maxRedirects
       /\ Len(rResponses) = maxRedirects + 1
  /\ Len(rResponses) = maxRedirects + 1
       /\ rResponses[Len(rResponses)].status \in {301, 302, 303, 307, 308}
       /\ rResponses[Len(rResponses)].location # NULL =>
       rState = "failed" /\ rError = "Too many redirects when fetching " \o rUrl

\* C39: fetchWithRedirects terminates for every chain of redirects, cyclic
\* ones included: it follows at most maxRedirects (5) redirects and then fails
\* with the too-many-redirects error; a 2xx response is returned at once, a
\* redirect status without a Location header fails, and any other status fails
\* at once without a further request
C39_TerminatesWithinRedirects ==
  /\ []RedirectsBounded
  /\ (rState = "fetching") ~> (rState \in {"returned", "failed"})

\* a cyclic chain has run into the too-many-redirects error
C39_Witness ==
  /\ rState = "failed"
  /\ rError = "Too many redirects when fetching " \o rUrl
  /\ Len(rRequests) = maxRedirects + 1
  /\ \E i, j \in 1..Len(rRequests) : i < j /\ rRequests[i] = rRequests[j]

\* C40: a call of hybridContactExtraction that finds a fresh entry with at
\* least one email or one phone under the contacts key of its URL returns the
\* emails and phones of that entry tagged hybrid, and it neither fetches the
\* page nor calls the AI nor writes to the cache; a call that finds an entry
\* with no email and no phone goes on to fetch the page as on a miss
C40_CacheHitReturnsCached ==
  [][(\E url \in HybridUrlPool : HybridCall(url)) =>
       LET key == contactsKey(hUrl')
           held == key \in DOMAIN cache /\ ~Expired(cache[key], now)
       IN /\ held /\ (cache[key].data.emails # <<>> \/ cache[key].data.phones # <<>>) =>
               /\ hStage' = "Done"
               /\ hResult'.method = "hybrid"
               /\ hResult'.emails = cache[key].data.emails
               /\ hResult'.phones = cache[key].data.phones
               /\ hTrace' = <<"CacheCheck", "Done">>
               /\ hAi' = "none"
               /\ hWrites' = <<>>
               /\ cache' = cache
          /\ held /\ cache[key].data.emails = <<>> /\ cache[key].data.phones = <<>> =>
               /\ hStage' = "Fetch"
               /\ hResult' = NoResult
               /\ hTrace' = <<"CacheCheck", "Fetch">>]_vars

\* the second call has been answered from the entry the first call wrote
C40_Witness ==
  /\ hCalls = 2
  /\ hStage = "Done"
  /\ hResult.method = "hybrid"
  /\ hTrace = <<"CacheCheck", "Done">>
  /\ contactsKey(hUrl) \in DOMAIN cache
  /\ hResult.emails = cache[contactsKey(hUrl)].data.emails
  /\ hResult.emails # <<>>

====
